---- MODULE Spec2Model ----
(***************************************************************************)
(* Exam-Pilot: the document-validation and model-orchestration pipeline.   *)
(*                                                                         *)
(*   geminiService   analyzeExamStrategy, generateContentWithRetry,        *)
(*                   processResponse                                       *)
(*   documentValidation  countKeywordsInText, hasMinimumAcademicKeywords,  *)
(*                   validateDocumentContent                               *)
(*   pdfTextExtractor    extractTextFromPdf                                *)
(*   App             handleAnalyze and the state it owns                   *)
(*                                                                         *)
(* Text is a sequence of items: a vocabulary keyword (in lower or mixed    *)
(* case), a cut-off keyword prefix, a letter that belongs to no keyword,   *)
(* one whitespace character, or a block Fill(k) standing for k copies of   *)
(* the two characters "z ".  An error message is the set of the marker     *)
(* substrings it contains, which is all the code ever asks of a message.   *)
(***************************************************************************)
EXTENDS Integers, Sequences, FiniteSets, TLC

\* ------------------------------------------------------------------ bounds
\* Largest number of marker substrings in one provider error message.
MaxMarkers == 2
\* Largest maxRetries handed to generateContentWithRetry on its own.
MaxAttemptsBound == 7

\* Largest number of timeout timers, and of model calls, left behind by settled
\* races and still to fire.
MaxStale == 2

\* Largest number of Upload Gate checks in flight at once.
MaxChecks == 2

\* ------------------------------------------------------ program constants
ExtractBudget == 4000
CombinedBudget == 8000
BackoffBase == 1000
BackoffCap == 10000
FallbackDelay == 2000
RunMaxRetries == 3
MinDistinct == 2

Min(a, b) == IF a <= b THEN a ELSE b

\* -------------------------------------------------------------------- text
ACADEMIC_KEYWORDS ==
  << "syllabus", "university", "semester", "unit", "marks", "question", "exam",
     "paper", "course", "module", "credit", "curriculum", "assessment", "topic",
     "chapter" >>

Kw(w) == [t |-> "kw", w |-> w, n |-> Len(w), u |-> FALSE]
KwUp(w) == [t |-> "kw", w |-> w, n |-> Len(w), u |-> TRUE]
Part(w, c) == [t |-> "part", w |-> w, n |-> c, u |-> FALSE]
Ch == [t |-> "x", w |-> "z", n |-> 1, u |-> FALSE]
Sp == [t |-> "ws", w |-> " ", n |-> 1, u |-> FALSE]
Nl == [t |-> "ws", w |-> "\n", n |-> 1, u |-> FALSE]
Fill(k) == [t |-> "fill", w |-> "z ", n |-> k, u |-> FALSE]

ItemLen(it) == IF it.t = "fill" THEN 2 * it.n ELSE it.n

RECURSIVE TextLen(_)
TextLen(s) == IF s = <<>> THEN 0 ELSE ItemLen(Head(s)) + TextLen(Tail(s))

\* The first c characters of one item that is longer than c (c >= 1).
CutItem(it, c) ==
  IF it.t = "fill"
    THEN (IF c \div 2 > 0 THEN << Fill(c \div 2) >> ELSE <<>>)
         \o (IF c % 2 = 1 THEN << Ch >> ELSE <<>>)
    ELSE << Part(it.w, c) >>

\* String.prototype.slice(0, c)
RECURSIVE Slice(_, _)
Slice(s, c) ==
  IF s = <<>> \/ c <= 0 THEN <<>>
  ELSE IF ItemLen(Head(s)) <= c
    THEN << Head(s) >> \o Slice(Tail(s), c - ItemLen(Head(s)))
    ELSE CutItem(Head(s), c)

\* text.split(/\s+/).filter(Boolean).length
RECURSIVE WordsFrom(_, _)
WordsFrom(s, inWord) ==
  IF s = <<>> THEN 0
  ELSE LET h == Head(s) IN
    CASE h.t = "ws" -> WordsFrom(Tail(s), FALSE)
      [] h.t = "fill" ->
           IF h.n = 0 THEN WordsFrom(Tail(s), inWord)
           ELSE (IF inWord THEN h.n - 1 ELSE h.n) + WordsFrom(Tail(s), FALSE)
      [] OTHER -> (IF inWord THEN 0 ELSE 1) + WordsFrom(Tail(s), TRUE)

WordCount(s) == WordsFrom(s, FALSE)

\* text.match(new RegExp(keyword, 'gi')): the matches of one keyword
Matches(s, keyword) ==
  Cardinality({i \in 1..Len(s) : s[i].t = "kw" /\ s[i].w = keyword})

\* lower.includes(kw)
IncludesKeyword(s, kw) == \E i \in 1..Len(s) : s[i].t = "kw" /\ s[i].w = kw

countKeywordsInText(s) ==
  IF s = <<>> THEN [count |-> 0, found |-> {}]
  ELSE LET found == {k \in 1..Len(ACADEMIC_KEYWORDS) :
                        IncludesKeyword(s, ACADEMIC_KEYWORDS[k])}
       IN [count |-> Cardinality(found),
           found |-> {ACADEMIC_KEYWORDS[k] : k \in found}]

\* A quick check that looks at the whole text.
hasMinimumAcademicKeywordsWhole(s, firstNChars, minKeywords) ==
  countKeywordsInText(s).count >= minKeywords

hasMinimumAcademicKeywords(s, firstNChars, minKeywords) ==
  countKeywordsInText(Slice(s, firstNChars)).count >= minKeywords

RECURSIVE SumMatches(_, _)
SumMatches(s, k) ==
  IF k = 0 THEN 0 ELSE Matches(s, ACADEMIC_KEYWORDS[k]) + SumMatches(s, k - 1)

\* A score without its cap.
ScoreUncapped(occ, wordCount) ==
  IF wordCount > 0 THEN [num |-> 100 * occ, den |-> wordCount] ELSE [num |-> 0, den |-> 1]

\* The score is the fraction num/den, never rounded.
Score(occ, wordCount) ==
  IF wordCount > 0
    THEN (IF occ >= wordCount THEN [num |-> 100, den |-> 1]
                              ELSE [num |-> 100 * occ, den |-> wordCount])
    ELSE [num |-> 0, den |-> 1]

\* A floor of 0.5, as the comment beside the test has it.
ScoreAtLeastHalf(score) == 2 * score.num >= score.den

\* score >= 0.3
ScoreAtLeastFloor(score) == 10 * score.num >= 3 * score.den

validateDocumentContent(s) ==
  IF s = <<>>
    THEN [score |-> [num |-> 0, den |-> 1], passed |-> FALSE, keywordCount |-> 0,
          distinctKeywords |-> 0]
    ELSE LET wordCount == WordCount(s)
             keywordOccurrences == SumMatches(s, Len(ACADEMIC_KEYWORDS))
             score == Score(keywordOccurrences, wordCount)
             distinctCount == countKeywordsInText(s).count
         IN [score |-> score,
             passed |-> distinctCount >= MinDistinct /\ ScoreAtLeastFloor(score),
             keywordCount |-> keywordOccurrences,
             distinctKeywords |-> distinctCount]

\* ------------------------------------------------------------------- files
\* A document: its pages' text, or a decoder that throws.
File(id, throws, pages) == [id |-> id, throws |-> throws, pages |-> pages]

RECURSIVE ExtractPages(_, _, _, _)
ExtractPages(pages, i, text, maxChars) ==
  IF i <= Len(pages) /\ TextLen(text) < maxChars
    THEN ExtractPages(pages, i + 1, text \o pages[i] \o << Nl >>, maxChars)
    ELSE text

\* The number of pages fetched with pdf.getPage by the same loop.
RECURSIVE PagesRead(_, _, _, _)
PagesRead(pages, i, text, maxChars) ==
  IF i <= Len(pages) /\ TextLen(text) < maxChars
    THEN PagesRead(pages, i + 1, text \o pages[i] \o << Nl >>, maxChars)
    ELSE i - 1

\* strings.join(' ')
RECURSIVE Join(_)
Join(strings) ==
  IF strings = <<>> THEN <<>>
  ELSE IF Len(strings) = 1 THEN Head(strings)
  ELSE Head(strings) \o << Sp >> \o Join(Tail(strings))

\* content.items.map((item) => item.str).filter(Boolean).join(' ')
PageText(items) == Join(SelectSeq(items, LAMBDA str : str # <<>>))

\* An extraction that returns all it has read.
extractTextFromPdfUncut(file, maxChars) ==
  ExtractPages(file.pages, 1, <<>>, maxChars)

\* extractTextFromPdf of a document whose decoding does not throw
extractTextFromPdf(file, maxChars) ==
  Slice(ExtractPages(file.pages, 1, <<>>, maxChars), maxChars)

\* ------------------------------------------------------------------ errors
\* The substrings of an error message that the code looks for.
FatalMarkers == {"timeout", "invalid", "quota", "401", "403"}
TransientMarkers == {"503", "500", "429", "high demand"}
Markers == FatalMarkers \cup TransientMarkers \cup {"currently experiencing", "all models"}

\* An error object: its code, its message (the text and the markers in it), the
\* detectedType field (<<>> when the field is not set) and where it was made.
Err(code, text, markers, detectedType, origin) ==
  [code |-> code, text |-> text, markers |-> markers,
   detectedType |-> detectedType, origin |-> origin]

NoError == Err("", <<>>, {}, <<>>, <<"none", 0>>)

\* errorMessage.includes(marker)
Includes(error, marker) == marker \in error.markers

GenericLabel == << "non-academic document" >>
DefaultReasonText == << "The file appears to be unrelated to academic coursework." >>
ParseFailureText ==
  << "Failed to parse JSON response. The AI response may not be in the correct format." >>

\* ---------------------------------------------------------------- response
\* The reason of a rejection payload: absent or falsy, a string (a sequence over
\* "D" for 'detected:', " ", ")", the letter "a" and marker words) or a truthy
\* value that is not a string.
ReasonStr(s) == [t |-> "str", s |-> s]
ReasonAbsent == [t |-> "absent", s |-> <<>>]
ReasonOther == [t |-> "other", s |-> <<>>]

ReasonTruthy(reason) == reason.t = "other" \/ (reason.t = "str" /\ reason.s # <<>>)

\* String.prototype.trim on a reason string
RECURSIVE TrimLeft(_, _)
TrimLeft(s, ws) == IF s # <<>> /\ Head(s) = ws THEN TrimLeft(Tail(s), ws) ELSE s

RECURSIVE TrimRight(_, _)
TrimRight(s, ws) ==
  IF s # <<>> /\ s[Len(s)] = ws THEN TrimRight(SubSeq(s, 1, Len(s) - 1), ws) ELSE s

Trim(s, ws) == TrimRight(TrimLeft(s, ws), ws)

\* The index of the first element of s at or after i that is (not) c; Len(s)+1 if none.
RECURSIVE FirstAt(_, _, _, _)
FirstAt(s, i, c, same) ==
  IF i > Len(s) THEN Len(s) + 1
  ELSE IF (s[i] = c) = same THEN i ELSE FirstAt(s, i + 1, c, same)

\* reason.match(/detected:\s*([^)]+)/)?.[1] tried with 'detected:' at index i:
\* <<>> when the pattern does not match there.
GroupAt(s, i) ==
  LET j == FirstAt(s, i + 1, " ", FALSE)
  IN IF j <= Len(s) /\ s[j] # ")"
       THEN SubSeq(s, j, FirstAt(s, j, ")", TRUE) - 1)
       ELSE IF j > i + 1 THEN << " " >> ELSE <<>>

RECURSIVE DetectedGroup(_, _)
DetectedGroup(s, i) ==
  IF i > Len(s) THEN <<>>
  ELSE IF s[i] = "D" /\ GroupAt(s, i) # <<>> THEN GroupAt(s, i)
  ELSE DetectedGroup(s, i + 1)

\* (reason || '').match(...)?.[1]?.trim() || 'non-academic document'
detectedType(reason) ==
  LET label == Trim(DetectedGroup(reason.s, 1), " ")
  IN IF label = <<>> THEN GenericLabel ELSE label

\* new Error(analysis.reason || '...') with code and detectedType set
InvalidDocumentError(reason, origin) ==
  Err("INVALID_DOCUMENT",
      IF ReasonTruthy(reason) THEN << "reason" >> \o reason.s ELSE DefaultReasonText,
      {reason.s[i] : i \in 1..Len(reason.s)} \cap Markers,
      detectedType(reason), origin)

\* The response text is a sequence over "F" (a ``` fence), "J" (the word json),
\* "W" (whitespace), "{", "}", ",", "x" (prose) and the members "E"
\* ("error":"INVALID_DOCUMENT"), "R" ("reason":...) and "T" ("topics":[...]).
Response(text, reason) == [text |-> text, reason |-> reason]

\* text.match(/```(?:json)?\s*([\s\S]*?)\s*```/): the captured group, or the
\* text itself when there is no match
jsonTextOf(text) ==
  LET i == FirstAt(text, 1, "F", TRUE)
      j == FirstAt(text, i + 1, "F", TRUE)
      afterTag == IF i + 1 <= Len(text) /\ text[i + 1] = "J" THEN i + 2 ELSE i + 1
      p == FirstAt(text, afterTag, "W", FALSE)
  IN IF j > Len(text) THEN text
     ELSE TrimRight(SubSeq(text, p, j - 1), "W")

Members == {"E", "R", "T"}

\* JSON.parse: the text must be one object, its members separated by commas
JsonParse(text, reason) ==
  LET toks == SelectSeq(text, LAMBDA c : c # "W")
      n == Len(toks)
      wellFormed ==
        /\ n >= 2 /\ toks[1] = "{" /\ toks[n] = "}"
        /\ (n = 2 \/ n % 2 = 1)
        /\ \A k \in 2..(n - 1) : IF k % 2 = 0 THEN toks[k] \in Members ELSE toks[k] = ","
      has(m) == \E k \in 2..(n - 1) : toks[k] = m
  IN IF wellFormed
       THEN [ok |-> TRUE,
             value |-> [error |-> has("E"), topics |-> has("T"),
                        reason |-> IF has("R") THEN reason ELSE ReasonAbsent]]
       ELSE [ok |-> FALSE,
             value |-> [error |-> FALSE, topics |-> FALSE, reason |-> ReasonAbsent]]

\* jsonText.match(/\{[\s\S]*\}/): from the first "{" to the last "}"
RECURSIVE LastBrace(_, _)
LastBrace(s, i) == IF i = 0 \/ s[i] = "}" THEN i ELSE LastBrace(s, i - 1)

jsonObjectMatch(jsonText) ==
  LET a == FirstAt(jsonText, 1, "{", TRUE)
      b == LastBrace(jsonText, Len(jsonText))
  IN IF a <= Len(jsonText) /\ a < b THEN SubSeq(jsonText, a, b) ELSE <<>>

\* A return that fills in a reason the response did not have.
ReturnedFilled(value) ==
  [ok |-> TRUE, value |-> [value EXCEPT !.reason = ReasonStr(<<>>)], error |-> NoError]

Returned(value) == [ok |-> TRUE, value |-> value, error |-> NoError]
Thrown(error) ==
  [ok |-> FALSE, value |-> [error |-> FALSE, topics |-> FALSE, reason |-> ReasonAbsent],
   error |-> error]

\* The sentinel branch: the value is returned, or INVALID_DOCUMENT is thrown, or
\* .match is called on a reason that is no string and a TypeError is thrown.
SentinelCheck(value, origin) ==
  IF value.error
    THEN (IF value.reason.t = "other"
            THEN Thrown(Err("", << "TypeError" >>, {}, <<>>, origin))
            ELSE Thrown(InvalidDocumentError(value.reason, origin)))
    ELSE Returned(value)

processResponse(response, origin) ==
  LET jsonText == jsonTextOf(response.text)
      strict == JsonParse(Trim(jsonText, "W"), response.reason)
      first == IF strict.ok THEN SentinelCheck(strict.value, origin)
               ELSE Thrown(Err("", << "SyntaxError" >>, {}, <<>>, origin))
      object == jsonObjectMatch(jsonText)
      second == JsonParse(object, response.reason)
      recovered == IF second.ok THEN SentinelCheck(second.value, origin)
                   ELSE Thrown(Err("", << "SyntaxError" >>, {}, <<>>, origin))
  IN IF first.ok \/ first.error.code = "INVALID_DOCUMENT" THEN first
     ELSE IF object = <<>> THEN first
     ELSE IF recovered.ok \/ recovered.error.code = "INVALID_DOCUMENT" THEN recovered
     ELSE Thrown(Err("", ParseFailureText, {}, <<>>, origin))

\* ------------------------------------------------- generateContentWithRetry
\* A fatal test that has lost its '401' check.
IsFatalWithout401(error) == \E m \in FatalMarkers \ {"401"} : Includes(error, m)

\* errorMessage.includes('timeout') || ... || errorMessage.includes('403')
IsFatal(error) == \E m \in FatalMarkers : Includes(error, m)

\* errorMessage.includes('503') || ... || errorMessage.includes('high demand')
IsTransient(error) == \E m \in TransientMarkers : Includes(error, m)

\* A retry test that stops one attempt early.
ShouldRetryOffByOne(error, attempt, maxRetries) ==
  ~IsFatal(error) /\ IsTransient(error) /\ attempt + 1 < maxRetries

\* A catch block that takes a timeout for one more transient failure.
ShouldRetryTimeout(error, attempt, maxRetries) ==
  (IsTransient(error) \/ Includes(error, "timeout")) /\ attempt < maxRetries

\* A catch block that looks for the transient markers first.
ShouldRetryTransientFirst(error, attempt, maxRetries) ==
  IsTransient(error) /\ attempt < maxRetries

\* The catch block goes round the loop again.
ShouldRetry(error, attempt, maxRetries) ==
  ~IsFatal(error) /\ IsTransient(error) /\ attempt < maxRetries

\* A backoff without its ceiling.
BackoffDelayUncapped(attempt) == BackoffBase * 2 ^ (attempt - 2)

\* Math.min(1000 * Math.pow(2, attempt - 2), 10000)
BackoffDelay(attempt) == Min(BackoffBase * 2 ^ (attempt - 2), BackoffCap)

\* A catch block that keeps the first error it saw.
KeepFirstError(lastError, error) == IF lastError = NoError THEN error ELSE lastError

\* lastError = error
NextLastError(lastError, error) == error

\* What is said and done: onProgress reports, sleeps, model calls, extractions
\* and encodings, in the order they happen.
Ev(e, label, m, n) == [e |-> e, label |-> label, m |-> m, n |-> n, of |-> 0]

\* onProgress(`Retrying... (Attempt ${attempt}/${maxRetries})`)
Retrying(m, attempt, maxRetries) ==
  [e |-> "report", label |-> "Retrying", m |-> m, n |-> attempt, of |-> maxRetries]

Response0 == Response(<<>>, ReasonAbsent)

\* One activation of generateContentWithRetry.
Invoke(st, attempt, maxRetries, lastErr, response, thrown) ==
  [st |-> st, attempt |-> attempt, maxRetries |-> maxRetries, lastError |-> lastErr,
   response |-> response, error |-> thrown]

InvokeIdle == Invoke("idle", 0, 0, NoError, Response0, NoError)

\* What the model call of one attempt comes to.
Resolved(response) == [k |-> "resolved", response |-> response, error |-> NoError]
Rejected(error) == [k |-> "rejected", response |-> Response0, error |-> error]
Unsettled == [k |-> "none", response |-> Response0, error |-> NoError]

\* The attempt's model call has settled: the activation returns the response,
\* or throws, or reports the next attempt and sleeps before it.
InvokeSettled(iv, settled, m) ==
  IF settled.k = "resolved"
    THEN [inv |-> Invoke("returned", iv.attempt, iv.maxRetries, iv.lastError,
                         settled.response, NoError),
          events |-> <<>>]
  ELSE LET last == NextLastError(iv.lastError, settled.error) IN
    IF ShouldRetry(settled.error, iv.attempt, iv.maxRetries)
      THEN [inv |-> Invoke("sleeping", iv.attempt + 1, iv.maxRetries, last,
                           Response0, NoError),
            events |-> << Retrying(m, iv.attempt + 1, iv.maxRetries),
                          Ev("sleep", "backoff", m, BackoffDelay(iv.attempt + 1)) >>]
      ELSE [inv |-> Invoke("thrown", iv.attempt, iv.maxRetries, last, Response0,
                           IF ~IsFatal(settled.error) /\ IsTransient(settled.error)
                             THEN last ELSE settled.error),
            events |-> <<>>]

\* The sleep is over: the next attempt calls the model.
InvokeWoken(iv, m) ==
  [inv |-> Invoke("calling", iv.attempt, iv.maxRetries, iv.lastError, Response0, NoError),
   events |-> << Ev("call", "", m, iv.attempt) >>]

\* The error messages a provider may raise: any few of the markers.
ProviderMessages == {ms \in SUBSET Markers : Cardinality(ms) <= MaxMarkers}

CallCount(tr) == Cardinality({i \in 1..Len(tr) : tr[i].e = "call"})

ProviderError(ms, tr) == Err("", << "provider" >>, ms, <<>>, << "call", CallCount(tr) >>)

\* setTimeout(() => reject(new Error('Request timeout')), 120000) wins the race
TimeoutError(tr) ==
  Err("", << "Request timeout" >>, {"timeout"}, <<>>, << "timer", CallCount(tr) >>)

IsTimeout(settlement) ==
  settlement.k = "rejected" /\ settlement.error.origin[1] = "timer"

NoStale == [timers |-> 0, calls |-> 0]

\* Promise.race settles once: the loser stays behind, the timer when the call
\* settled first, the call when the timer did.
StaleAfter(left, settlement) ==
  IF IsTimeout(settlement) THEN [left EXCEPT !.calls = @ + 1]
  ELSE [left EXCEPT !.timers = @ + 1]

\* A race that neither the call nor a timer ever settles.
CanSettleNever(left, settlement) == FALSE

\* Timers of 120000 ms fire in the order they were set: this attempt's timer
\* fires only after every earlier one.
CanSettle(left, settlement) ==
  IF IsTimeout(settlement) THEN left.timers = 0 /\ left.calls < MaxStale
  ELSE left.timers < MaxStale

\* ------------------------------------------------------ analyzeExamStrategy
modelsToTry == << "Gemini 3 Flash", "Gemini 1.5 Flash", "Gemini 1.5 Pro" >>

\* A fallback test that has lost its '503' check.
ShouldFallbackWithout503(error) ==
  Includes(error, "high demand") \/ Includes(error, "currently experiencing")

\* errorMessage.includes('503') || includes('high demand') || includes('currently experiencing')
ShouldFallback(error) ==
  Includes(error, "503") \/ Includes(error, "high demand")
    \/ Includes(error, "currently experiencing")

\* A clearInterval that stops nothing.
clearIntervalNothing(running, m) == running

\* clearInterval(progressInterval): the ticker of model m is stopped
clearInterval(running, m) == running \ {m}

\* setInterval(..., 5000): the ticker of model m is started
setInterval(running, m) == running \cup {m}

\* The ticker's report, made once more than 10 s have passed.
Elapsed(m) == Ev("report", "Step 3 elapsed", m, 0)

\* A combined text that leaves the past papers out.
combinedTextFirst(syllabusText, pyqText) == Slice(syllabusText, CombinedBudget)

\* (syllabusText + '\n' + pyqText).slice(0, 8000)
combinedText(syllabusText, pyqText) ==
  Slice(syllabusText \o << Nl >> \o pyqText, CombinedBudget)

\* A gate that lets every text through.
GateRejectsNothing(text) == FALSE

\* if (!validation.passed) throw ...
GateRejects(text) == ~validateDocumentContent(text).passed

GateError ==
  Err("INVALID_DOCUMENT",
      << "Uploaded file does not appear to be a valid Syllabus or Question Paper." >>,
      {}, <<>>, << "gate", 0 >>)

\* reader.onerror = reject: what is thrown is no Error and has no message
EncodeError(slot) == Err("", << "[object ProgressEvent]" >>, {}, <<>>, << "encode", slot >>)

MissingKeyError ==
  Err("", << "VITE_GEMINI_API_KEY is not set. Add your API key to the .env file." >>,
      {}, <<>>, << "getGenAI", 0 >>)

AllModelsError ==
  Err("", << "All models are currently unavailable. Please try again later." >>,
      {}, <<>>, << "loop", 0 >>)

TimeoutMessage ==
  << "Request timeout: Analysis is taking longer than expected. Please try again with smaller PDFs." >>
QuotaMessage == << "API quota exceeded. Please try again later." >>
InvalidKeyMessage == << "Invalid API key or request. Please check your configuration." >>
HighDemandMessage ==
  << "The AI model is currently experiencing high demand. Please wait a moment and try again. The app will automatically retry with fallback models." >>
AllModelsMessage ==
  << "All AI models are currently unavailable due to high demand. Please try again in a few minutes." >>
DefaultPrefix == << "Failed to analyze documents: " >>

UserError(text, markers) == Err("", text, markers, <<>>, << "normalize", 0 >>)

\* An outer catch that looks for the key markers before the quota markers.
NormalizeKeyFirst(error) ==
  IF error.code = "INVALID_DOCUMENT" THEN error
  ELSE IF Includes(error, "timeout") THEN UserError(TimeoutMessage, {"timeout"})
  ELSE IF Includes(error, "invalid") \/ Includes(error, "401") \/ Includes(error, "403")
    THEN UserError(InvalidKeyMessage, {})
  ELSE IF Includes(error, "quota") \/ Includes(error, "429") THEN UserError(QuotaMessage, {"quota"})
  ELSE IF ShouldFallback(error) THEN UserError(HighDemandMessage, {"currently experiencing", "high demand"})
  ELSE IF Includes(error, "all models") THEN UserError(AllModelsMessage, {"high demand"})
  ELSE Err("", DefaultPrefix \o error.text, error.markers, <<>>, << "normalize", 0 >>)

\* The outer catch: INVALID_DOCUMENT passes, every other error is replaced.
Normalize(error) ==
  IF error.code = "INVALID_DOCUMENT" THEN error
  ELSE IF Includes(error, "timeout") THEN UserError(TimeoutMessage, {"timeout"})
  ELSE IF Includes(error, "quota") \/ Includes(error, "429") THEN UserError(QuotaMessage, {"quota"})
  ELSE IF Includes(error, "invalid") \/ Includes(error, "401") \/ Includes(error, "403")
    THEN UserError(InvalidKeyMessage, {})
  ELSE IF ShouldFallback(error) THEN UserError(HighDemandMessage, {"currently experiencing", "high demand"})
  ELSE IF Includes(error, "all models") THEN UserError(AllModelsMessage, {"high demand"})
  ELSE Err("", DefaultPrefix \o error.text, error.markers, <<>>, << "normalize", 0 >>)

\* throw lastError || new Error('All models are currently unavailable. ...')
AfterLoop(lastErr) == IF lastErr = NoError THEN AllModelsError ELSE lastErr

\* --------------------------------------------------------------------- App
NoFile == File("", FALSE, <<>>)
NoStep == Ev("", "", 0, 0)
NoAnalysis == [set |-> FALSE, value |-> [error |-> FALSE, topics |-> FALSE, reason |-> ReasonAbsent]]
SomeAnalysis(value) == [set |-> TRUE, value |-> value]
MissingInputMessage == << "Please upload both syllabus and past year question papers" >>
FallbackMessage == << "Failed to analyze documents. Please try again." >>

Slots == {1, 2}
NoOutcome == [st |-> "none", result |-> Thrown(NoError)]
NotStarted == [st |-> "idle", text |-> <<>>]

\* PDFDropzone: isChecking, showAcademicWarning, pendingFile, and the
\* validateAndSetFile activations that await their extraction.
NoGate ==
  [isChecking |-> FALSE, showAcademicWarning |-> FALSE, pendingFile |-> NoFile,
   checks |-> <<>>]

\* What the user picks: the File object with its name (a sequence of pieces,
\* the last being the extension) and its MIME type.
Upload(name, type, file) == [name |-> name, type |-> type, file |-> file]

\* String.prototype.toLowerCase on one piece of a file name
ToLower(piece) ==
  CASE piece = ".PDF" -> ".pdf"
    [] piece = ".Pdf" -> ".pdf"
    [] piece = ".TXT" -> ".txt"
    [] OTHER -> piece

\* A name test that looks for '.pdf' anywhere in the name.
IncludesPdf(name) == \E i \in 1..Len(name) : ToLower(name[i]) = ".pdf"

\* (selectedFile.name || '').toLowerCase().endsWith('.pdf')
EndsWithPdf(name) == name # <<>> /\ ToLower(name[Len(name)]) = ".pdf"

\* One PDFDropzone with the file prop it is given.
Dropzone(file, g) == [file |-> file, gate |-> g]

\* hasMinimumAcademicKeywords(await extractTextFromPdf(selectedFile, 1500), 1000, 2)
looksAcademic(file) ==
  hasMinimumAcademicKeywords(extractTextFromPdf(file, 1500), 1000, 2)

\* A rejection by name that leaves the slot alone.
validateAndSetFileKeeps(d, u) ==
  IF ~EndsWithPdf(u.name) THEN d
  ELSE [d EXCEPT !.gate = [isChecking |-> TRUE, showAcademicWarning |-> FALSE,
                           pendingFile |-> NoFile,
                           checks |-> Append(d.gate.checks, u.file)]]

\* validateAndSetFile up to its await: a name that is no PDF's clears the slot,
\* any other starts a check.
validateAndSetFile(d, u) ==
  IF ~EndsWithPdf(u.name) THEN [d EXCEPT !.file = NoFile]
  ELSE [d EXCEPT !.gate = [isChecking |-> TRUE, showAcademicWarning |-> FALSE,
                           pendingFile |-> NoFile,
                           checks |-> Append(d.gate.checks, u.file)]]

\* handleDrop, handleFileInput
handleDrop(d, u) == IF u.type = "application/pdf" THEN validateAndSetFile(d, u) ELSE d

Without(checks, i) == SubSeq(checks, 1, i - 1) \o SubSeq(checks, i + 1, Len(checks))

\* A check that accepts whatever it has read.
checkSettledAcceptsAll(d, i) ==
  Dropzone(d.gate.checks[i],
           [d.gate EXCEPT !.checks = Without(d.gate.checks, i), !.isChecking = FALSE])

\* A check that never clears the checking indicator.
checkSettledNoFinally(d, i) ==
  LET f == d.gate.checks[i]
      g == [d.gate EXCEPT !.checks = Without(d.gate.checks, i)]
  IN IF f.throws \/ looksAcademic(f) THEN Dropzone(f, g)
     ELSE Dropzone(d.file, [g EXCEPT !.pendingFile = f, !.showAcademicWarning = TRUE])

\* A gate that lets only the check started last decide: an older one is dropped.
checkSettledLatestOnly(d, i) ==
  LET f == d.gate.checks[i]
      g == [d.gate EXCEPT !.checks = Without(d.gate.checks, i), !.isChecking = FALSE]
  IN IF i < Len(d.gate.checks) THEN Dropzone(d.file, g)
     ELSE IF f.throws \/ looksAcademic(f) THEN Dropzone(f, g)
     ELSE Dropzone(d.file, [g EXCEPT !.pendingFile = f, !.showAcademicWarning = TRUE])

\* validateAndSetFile after its await, for the i-th check in flight: the file
\* is accepted, or held as pending with the warning; finally isChecking is cleared.
checkSettled(d, i) ==
  LET f == d.gate.checks[i]
      g == [d.gate EXCEPT !.checks = Without(d.gate.checks, i), !.isChecking = FALSE]
  IN IF f.throws THEN Dropzone(f, g)
     ELSE IF looksAcademic(f) THEN Dropzone(f, g)
     ELSE Dropzone(d.file, [g EXCEPT !.pendingFile = f, !.showAcademicWarning = TRUE])

\* A confirm that sends the file through the check again.
handleConfirmAnywayRecheck(d) ==
  IF d.gate.pendingFile # NoFile
    THEN validateAndSetFile(d, Upload(<< ".pdf" >>, "application/pdf", d.gate.pendingFile))
    ELSE d

handleConfirmAnyway(d) ==
  IF d.gate.pendingFile # NoFile
    THEN Dropzone(d.gate.pendingFile,
                  [d.gate EXCEPT !.pendingFile = NoFile, !.showAcademicWarning = FALSE])
    ELSE d

\* A cancel that drops the pending file and leaves the warning flag set.
handleCancelWarningKeepsWarning(d) ==
  Dropzone(NoFile, [d.gate EXCEPT !.pendingFile = NoFile])

handleCancelWarning(d) ==
  Dropzone(NoFile, [d.gate EXCEPT !.pendingFile = NoFile, !.showAcademicWarning = FALSE])

handleRemove(d) ==
  Dropzone(NoFile, [d.gate EXCEPT !.pendingFile = NoFile, !.showAcademicWarning = FALSE])

\* The render branches: the warning with its two buttons, else the spinner,
\* else the accepted file with its remove button, else the empty slot.
WarningShown(d) == d.gate.showAcademicWarning /\ d.gate.pendingFile # NoFile
SpinnerShown(d) == ~WarningShown(d) /\ d.gate.isChecking
RemoveShown(d) == ~WarningShown(d) /\ ~d.gate.isChecking /\ d.file # NoFile

\* No text function is being applied.
NoProbe == [st |-> "none"]

VARIABLES
  syllabusFile, pyqFile,      \* App: the two slots
  isAnalyzing, currentStep,   \* App: a run is in flight, and its last report
  analysis, error,            \* App: the result shown, the message shown (<<>> for none)
  invalidDocumentType,        \* App: the label of the invalid-document state
  apiKey,                     \* VITE_GEMINI_API_KEY is set
  pc,                         \* where the run is suspended
  job,                        \* the files the run was started with
  extracted, encoded,         \* per file: the extraction and the encoding
  modelIdx, lastError,        \* the fallback loop: the model tried, its lastError
  inv,                        \* the activation of generateContentWithRetry
  progressInterval,           \* the models whose elapsed-time ticker is running
  trace,                      \* what has happened in this run
  settled,                    \* what the last model call came to
  outcome,                    \* how the run ended: what it returned or threw
  stale,                      \* timers and calls whose Promise.race has settled
  gate,                       \* PDFDropzone of the syllabus slot: its own state
  probe                       \* the text functions on their own: input and result

appVars ==
  << syllabusFile, pyqFile, isAnalyzing, currentStep, analysis, error, invalidDocumentType >>
runVars ==
  << pc, job, extracted, encoded, modelIdx, lastError, inv, progressInterval, trace,
     settled, outcome >>
vars == << appVars, apiKey, runVars, stale, gate, probe >>

\* --------------------------------------------------------------- documents
\* A short syllabus: three keywords, three words.
Syllabus == File("syllabus", FALSE, << << Kw("syllabus"), Sp, Kw("unit"), Sp, Kw("marks") >> >>)
\* A receipt: no keyword at all.
Receipt == File("receipt", FALSE, << << Ch, Sp, Ch, Ch, Sp, Ch >> >>)
\* A scanned document: it has no text layer and decoding throws.
Scanned == File("scanned", TRUE, <<>>)
\* Two keywords at the top of 700 other words.
Diluted == File("diluted", FALSE, << << KwUp("exam"), Sp, Kw("paper"), Sp, Fill(700) >> >>)

Documents == {Syllabus, Receipt, Scanned, Diluted}

\* The provider errors of a run: every single marker, no marker, and messages
\* that carry a fatal and a transient marker together.
RunMessages ==
  {ms \in SUBSET Markers : Cardinality(ms) <= 1}
    \cup {{"quota", "429"}, {"invalid", "503"}, {"403", "high demand"}, {"401", "429"}}

\* What a model may answer.
RunResponses ==
  { Response(<< "F", "J", "W", "{", "T", "}", "W", "F" >>, ReasonAbsent),
    Response(<< "{", "E", ",", "R", "}" >>, ReasonStr(<< "a", "D", " ", "a", ")" >>)),
    Response(<< "{", "E", ",", "R", "}" >>, ReasonStr(<< "503", "D", " ", "a", ")" >>)),
    Response(<< "{", "E", ",", "R", "}" >>, ReasonOther),
    Response(<< "x", "{", "E", "}", "x" >>, ReasonAbsent),
    Response(<< "x", "{", "x", "}" >>, ReasonAbsent),
    Response(<< "x" >>, ReasonAbsent) }

\* ----------------------------------------------------------------- actions
\* The run ends: what leaves analyzeExamStrategy reaches handleAnalyze, which
\* shows the result or the error and leaves the analyzing state.
Finish(result, tr) ==
  /\ pc' = "done"
  /\ outcome' = [st |-> IF result.ok THEN "returned" ELSE "failed", result |-> result]
  /\ trace' = tr
  /\ isAnalyzing' = FALSE
  /\ currentStep' = NoStep
  /\ IF result.ok
       THEN /\ analysis' = SomeAnalysis(result.value)
            /\ UNCHANGED << error, invalidDocumentType >>
       ELSE /\ UNCHANGED analysis
            /\ IF result.error.code = "INVALID_DOCUMENT"
                 THEN /\ invalidDocumentType' =
                           (IF result.error.detectedType = <<>> THEN GenericLabel
                            ELSE result.error.detectedType)
                      /\ error' = << "INVALID_DOCUMENT" >>
                 ELSE /\ invalidDocumentType' = <<>>
                      /\ error' = (IF result.error.text = <<>> THEN FallbackMessage
                                   ELSE result.error.text)
  /\ UNCHANGED << syllabusFile, pyqFile, apiKey, job >>

\* One turn of the fallback loop up to the first model call of the activation.
StartModel(m, tr) ==
  /\ pc' = "calling"
  /\ modelIdx' = m
  /\ inv' = Invoke("calling", 1, RunMaxRetries, NoError, Response0, NoError)
  /\ progressInterval' = setInterval(progressInterval, m)
  /\ trace' = tr \o << Ev("report", "Step 2", m, 0), Ev("report", "Step 3", m, 0),
                       Ev("call", "", m, 1) >>
  /\ currentStep' = Ev("report", "Step 3", m, 0)
  /\ UNCHANGED << syllabusFile, pyqFile, isAnalyzing, analysis, error,
                  invalidDocumentType, apiKey, job, outcome >>

\* catch (apiError), then catch (modelError): the ticker is cleared, and the run
\* sleeps before the next model or throws to the outer catch.
AfterApiError(e, iv, tr) ==
  /\ inv' = iv
  /\ progressInterval' = clearInterval(progressInterval, modelIdx)
  /\ lastError' = e
  /\ UNCHANGED << extracted, encoded, modelIdx >>
  /\ IF ShouldFallback(e)
       THEN /\ pc' = "fallback"
            /\ trace' = tr \o << Ev("report", "unavailable", modelIdx, 0),
                                 Ev("sleep", "fallback", modelIdx, FallbackDelay) >>
            /\ currentStep' = Ev("report", "unavailable", modelIdx, 0)
            /\ UNCHANGED << syllabusFile, pyqFile, isAnalyzing, analysis, error,
                            invalidDocumentType, apiKey, job, outcome >>
       ELSE Finish(Thrown(Normalize(e)), tr)

\* A test that stops the run only when both files are missing.
MissingInputBoth(syllabus, pyq) == syllabus = NoFile /\ pyq = NoFile

\* if (!syllabusFile || !pyqFile)
MissingInput(syllabus, pyq) == syllabus = NoFile \/ pyq = NoFile

\* The Analyze button is enabled.
canAnalyze == ~isAnalyzing /\ syllabusFile # NoFile /\ pyqFile # NoFile

\* A start of the run that leaves the message of the last run on screen.
handleAnalyzeKeepsError ==
  /\ ~isAnalyzing
  /\ UNCHANGED << stale, gate, probe >>
  /\ analysis = NoAnalysis
  /\ IF MissingInput(syllabusFile, pyqFile)
       THEN /\ error' = MissingInputMessage
            /\ UNCHANGED << syllabusFile, pyqFile, isAnalyzing, currentStep, analysis,
                            invalidDocumentType, apiKey, runVars >>
       ELSE /\ stale = NoStale   \* a run starts once the leftovers of the last have fired
            /\ isAnalyzing' = TRUE
            /\ error' = error
            /\ invalidDocumentType' = <<>>
            /\ analysis' = NoAnalysis
            /\ currentStep' = Ev("report", "Step 1", 0, 0)
            /\ pc' = "extracting"
            /\ job' = << syllabusFile, pyqFile >>
            /\ extracted' = [s \in Slots |-> [st |-> "pending", text |-> <<>>]]
            /\ encoded' = [s \in Slots |-> "idle"]
            /\ modelIdx' = 0
            /\ lastError' = NoError
            /\ inv' = InvokeIdle
            /\ progressInterval' = progressInterval
            /\ trace' = << Ev("report", "Step 1", 0, 0),
                           Ev("extract", "", 1, ExtractBudget),
                           Ev("extract", "", 2, ExtractBudget) >>
            /\ settled' = Unsettled
            /\ outcome' = NoOutcome
            /\ UNCHANGED << syllabusFile, pyqFile, apiKey >>

\* App.handleAnalyze up to the first suspension of the run: the missing-input
\* message, or the start of a run.
handleAnalyze ==
  /\ ~isAnalyzing
  /\ UNCHANGED << stale, gate, probe >>
  /\ analysis = NoAnalysis
  /\ IF MissingInput(syllabusFile, pyqFile)
       THEN /\ error' = MissingInputMessage
            /\ UNCHANGED << syllabusFile, pyqFile, isAnalyzing, currentStep, analysis,
                            invalidDocumentType, apiKey, runVars >>
       ELSE /\ stale = NoStale   \* a run starts once the leftovers of the last have fired
            /\ isAnalyzing' = TRUE
            /\ error' = <<>>
            /\ invalidDocumentType' = <<>>
            /\ analysis' = NoAnalysis
            /\ currentStep' = Ev("report", "Step 1", 0, 0)
            /\ pc' = "extracting"
            /\ job' = << syllabusFile, pyqFile >>
            /\ extracted' = [s \in Slots |-> [st |-> "pending", text |-> <<>>]]
            /\ encoded' = [s \in Slots |-> "idle"]
            /\ modelIdx' = 0
            /\ lastError' = NoError
            /\ inv' = InvokeIdle
            /\ progressInterval' = progressInterval
            /\ trace' = << Ev("report", "Step 1", 0, 0),
                           Ev("extract", "", 1, ExtractBudget),
                           Ev("extract", "", 2, ExtractBudget) >>
            /\ settled' = Unsettled
            /\ outcome' = NoOutcome
            /\ UNCHANGED << syllabusFile, pyqFile, apiKey >>

\* App.handleReset
handleReset ==
  /\ analysis # NoAnalysis
  /\ UNCHANGED << stale, gate, probe >>
  /\ analysis' = NoAnalysis
  /\ syllabusFile' = NoFile
  /\ pyqFile' = NoFile
  /\ error' = <<>>
  /\ invalidDocumentType' = <<>>
  /\ UNCHANGED << isAnalyzing, currentStep, apiKey, runVars >>

\* The extraction of one file settles; a failed one gives ''.  When both have
\* settled the gate is evaluated and the run fails or starts both encodings.
\* (The text and the new record of extractions are bound with \E over a
\* one-element set, so that each is computed once.)
ExtractSettles(slot) ==
  /\ pc = "extracting"
  /\ UNCHANGED << stale, gate, probe >>
  /\ extracted[slot].st = "pending"
  /\ \E text \in {IF job[slot].throws THEN <<>>
                   ELSE extractTextFromPdf(job[slot], ExtractBudget)} :
     \E now \in {[extracted EXCEPT ![slot] = [st |-> "settled", text |-> text]]} :
        /\ extracted' = now
        /\ UNCHANGED << modelIdx, lastError, inv, progressInterval, settled >>
        /\ IF \E s \in Slots : now[s].st = "pending"
             THEN UNCHANGED << appVars, apiKey, pc, job, encoded, trace, outcome >>
           ELSE IF GateRejects(combinedText(now[1].text, now[2].text))
             THEN /\ Finish(Thrown(Normalize(GateError)), trace)
                  /\ UNCHANGED encoded
           ELSE /\ pc' = "encoding"
                /\ encoded' = [s \in Slots |-> "pending"]
                /\ trace' = trace \o << Ev("encode", "", 1, 0), Ev("encode", "", 2, 0) >>
                /\ UNCHANGED << appVars, apiKey, job, outcome >>

\* The encoding of one file settles.  The first failure ends the run; when both
\* have succeeded the client is made and the first model is called.
EncodeSettles(slot, ok) ==
  /\ encoded[slot] = "pending"
  /\ UNCHANGED << stale, gate, probe >>
  /\ LET now == [encoded EXCEPT ![slot] = IF ok THEN "done" ELSE "failed"]
     IN /\ encoded' = now
        /\ UNCHANGED << extracted, settled >>
        /\ IF pc # "encoding"
             THEN UNCHANGED << appVars, apiKey, pc, job, modelIdx, lastError, inv,
                               progressInterval, trace, outcome >>
           ELSE IF ~ok
             THEN /\ Finish(Thrown(Normalize(EncodeError(slot))), trace)
                  /\ UNCHANGED << modelIdx, lastError, inv, progressInterval >>
           ELSE IF \E s \in Slots : now[s] = "pending"
             THEN UNCHANGED << appVars, apiKey, pc, job, modelIdx, lastError, inv,
                               progressInterval, trace, outcome >>
           ELSE IF ~apiKey
             THEN /\ Finish(Thrown(Normalize(MissingKeyError)), trace)
                  /\ UNCHANGED << modelIdx, lastError, inv, progressInterval >>
           ELSE /\ StartModel(1, trace)
                /\ UNCHANGED lastError

\* What the model call in flight comes to: a response, an error, or the timeout.
Settlements(tr) ==
  {Resolved(r) : r \in RunResponses}
    \cup {Rejected(ProviderError(ms, tr)) : ms \in RunMessages}
    \cup {Rejected(TimeoutError(tr))}

\* The model call of the current attempt settles, inside a run.
ModelSettles ==
  /\ pc = "calling"
  /\ UNCHANGED << gate, probe >>
  /\ \E s \in Settlements(trace) :
       \E next \in {InvokeSettled(inv, s, modelIdx)} :
       \E tr \in {trace \o next.events} :
          /\ CanSettle(stale, s)
          /\ stale' = StaleAfter(stale, s)
          /\ settled' = s
          /\ CASE next.inv.st = "sleeping" ->
                 /\ pc' = "backoff"
                 /\ inv' = next.inv
                 /\ trace' = tr
                 /\ currentStep' = tr[Len(tr) - 1]
                 /\ UNCHANGED << syllabusFile, pyqFile, isAnalyzing, analysis, error,
                                 invalidDocumentType, apiKey, job, extracted, encoded,
                                 modelIdx, lastError, progressInterval, outcome >>
            [] next.inv.st = "thrown" -> AfterApiError(next.inv.error, next.inv, tr)
            [] OTHER ->
                 \E result \in {processResponse(next.inv.response,
                                                 << "interpret", CallCount(tr) >>)} :
                    IF result.ok
                      THEN /\ Finish(result, tr)
                           /\ inv' = next.inv
                           /\ progressInterval' = clearInterval(progressInterval, modelIdx)
                           /\ UNCHANGED << extracted, encoded, modelIdx, lastError >>
                      ELSE AfterApiError(result.error, next.inv, tr)

\* A sleep of the run is over: the next attempt, the next model, or the end of
\* the fallback list.
SleepDone ==
  /\ pc \in {"backoff", "fallback"}
  /\ UNCHANGED << stale, gate, probe >>
  /\ UNCHANGED << extracted, encoded, lastError, settled >>
  /\ IF pc = "backoff"
       THEN LET next == InvokeWoken(inv, modelIdx)
            IN /\ pc' = "calling"
               /\ inv' = next.inv
               /\ trace' = trace \o next.events
               /\ UNCHANGED << appVars, apiKey, job, modelIdx, progressInterval, outcome >>
     ELSE IF modelIdx < Len(modelsToTry)
       THEN StartModel(modelIdx + 1, trace)
     ELSE /\ Finish(Thrown(Normalize(AfterLoop(lastError))), trace)
          /\ UNCHANGED << modelIdx, inv, progressInterval >>

\* The timeout timer of a settled race fires: reject() on a promise whose race
\* is over reaches no handler.
LateTimer ==
  /\ stale.timers > 0
  /\ stale' = [stale EXCEPT !.timers = @ - 1]
  /\ UNCHANGED << appVars, apiKey, runVars, gate, probe >>

\* The model call that lost its race to the timer settles, with a response or
\* an error: the race is over and nothing awaits it.
LateCall ==
  /\ stale.calls > 0
  /\ stale' = [stale EXCEPT !.calls = @ - 1]
  /\ UNCHANGED << appVars, apiKey, runVars, gate, probe >>

\* A ticker fires: past 10 s it reports the elapsed time, before that nothing.
Tick ==
  /\ progressInterval # {}
  /\ UNCHANGED << stale, gate, probe >>
  /\ \E m \in progressInterval, late \in BOOLEAN :
       currentStep' = IF late THEN Elapsed(m) ELSE currentStep
  /\ UNCHANGED << syllabusFile, pyqFile, isAnalyzing, analysis, error, invalidDocumentType,
                  apiKey, runVars >>

Init ==
  /\ syllabusFile \in Documents \cup {NoFile}
  /\ pyqFile \in Documents \cup {NoFile}
  /\ isAnalyzing = FALSE
  /\ currentStep = NoStep
  /\ analysis = NoAnalysis
  /\ error = <<>>
  /\ invalidDocumentType = <<>>
  /\ apiKey \in BOOLEAN
  /\ pc = "idle"
  /\ job = << NoFile, NoFile >>
  /\ extracted = [s \in Slots |-> NotStarted]
  /\ encoded = [s \in Slots |-> "idle"]
  /\ modelIdx = 0
  /\ lastError = NoError
  /\ inv = InvokeIdle
  /\ progressInterval = {}
  /\ trace = <<>>
  /\ settled = Unsettled
  /\ outcome = NoOutcome
  /\ stale = NoStale
  /\ gate = NoGate
  /\ probe = NoProbe

Next ==
  \/ handleAnalyze
  \/ handleReset
  \/ \E slot \in Slots : ExtractSettles(slot)
  \/ \E slot \in Slots, ok \in BOOLEAN : EncodeSettles(slot, ok)
  \/ ModelSettles
  \/ SleepDone
  \/ Tick
  \/ LateTimer
  \/ LateCall

Spec == Init /\ [][Next]_vars

\* ----------------------------------------- generateContentWithRetry alone
\* The function called on its own with any maxRetries, as a test would call it.
InvokeResponses ==
  { Response(<< "{", "T", "}" >>, ReasonAbsent), Response(<< "x" >>, ReasonAbsent) }

InvokeSettlements(tr) ==
  {Resolved(r) : r \in InvokeResponses}
    \cup {Rejected(ProviderError(ms, tr)) : ms \in ProviderMessages}
    \cup {Rejected(TimeoutError(tr))}

Quiet ==
  /\ syllabusFile = NoFile
  /\ pyqFile = NoFile
  /\ isAnalyzing = FALSE
  /\ currentStep = NoStep
  /\ analysis = NoAnalysis
  /\ error = <<>>
  /\ invalidDocumentType = <<>>
  /\ apiKey = TRUE
  /\ job = << NoFile, NoFile >>
  /\ extracted = [s \in Slots |-> NotStarted]
  /\ encoded = [s \in Slots |-> "idle"]
  /\ modelIdx = 0
  /\ lastError = NoError
  /\ progressInterval = {}
  /\ outcome = NoOutcome
  /\ stale = NoStale
  /\ gate = NoGate

InitInvoke ==
  /\ Quiet
  /\ probe = NoProbe
  /\ pc = "invoke"
  /\ \E maxRetries \in 1..MaxAttemptsBound :
       inv = Invoke("calling", 1, maxRetries, NoError, Response0, NoError)
  /\ trace = << Ev("call", "", 0, 1) >>
  /\ settled = Unsettled

InvokeSettles ==
  /\ pc = "invoke"
  /\ inv.st = "calling"
  /\ UNCHANGED << gate, probe >>
  /\ \E s \in InvokeSettlements(trace) :
       LET next == InvokeSettled(inv, s, 0)
       IN /\ CanSettle(stale, s)
          /\ stale' = StaleAfter(stale, s)
          /\ settled' = s
          /\ inv' = next.inv
          /\ trace' = trace \o next.events
  /\ UNCHANGED << appVars, apiKey, pc, job, extracted, encoded, modelIdx, lastError,
                  progressInterval, outcome >>

InvokeWakes ==
  /\ pc = "invoke"
  /\ inv.st = "sleeping"
  /\ UNCHANGED << stale, gate, probe >>
  /\ LET next == InvokeWoken(inv, 0)
     IN /\ inv' = next.inv
        /\ trace' = trace \o next.events
  /\ UNCHANGED << appVars, apiKey, pc, job, extracted, encoded, modelIdx, lastError,
                  progressInterval, settled, outcome >>

NextInvoke == InvokeSettles \/ InvokeWakes \/ LateTimer \/ LateCall

SpecInvoke == InitInvoke /\ [][NextInvoke]_vars

\* ---------------------------------------------------- processResponse alone
\* Longest object text and longest reason string tried.
MaxCoreLen == 5
MaxReasonLen == 4

CoreTokens == {"{", "}", ",", "E", "R", "T"}
ReasonTokens == {"D", " ", ")", "a", "503"}

SeqsUpTo(S, n) == UNION {[1..k -> S] : k \in 0..n}

\* The text around the object: nothing, whitespace, prose, a fence with or
\* without the tag, a fence inside prose, an earlier fenced block, an open
\* fence, a fenced block after an earlier fenced block of prose.
Wrappers ==
  { << <<>>, <<>> >>, << << "W" >>, << "W" >> >>, << << "x" >>, << "x" >> >>,
    << << "F" >>, << "F" >> >>, << << "F", "J", "W" >>, << "W", "F" >> >>,
    << << "x", "F", "J" >>, << "F", "x" >> >>, << << "F", "x", "F" >>, <<>> >>,
    << << "F", "J" >>, <<>> >>,
    << << "F", "x", "F", "x", "F", "J" >>, << "F" >> >> }

FewReasons == { ReasonAbsent, ReasonOther, ReasonStr(<< "a", "D", " ", "a", " ", ")" >>) }

HasToken(text, c) == \E i \in 1..Len(text) : text[i] = c

\* The reasons tried with a text that has a "reason" member.
ReasonsFor(core) == IF HasToken(core, "R") THEN FewReasons ELSE {ReasonAbsent}

InitInterpret ==
  /\ Quiet
  /\ probe = NoProbe
  /\ pc = "interpret"
  /\ \/ \E w \in Wrappers, core \in SeqsUpTo(CoreTokens, MaxCoreLen) :
          \E r \in ReasonsFor(core) :
            /\ inv = Invoke("returned", 1, 1, NoError, Response(w[1] \o core \o w[2], r),
                            NoError)
            /\ settled = Resolved(Response(w[1] \o core \o w[2], r))
     \/ \E str \in SeqsUpTo(ReasonTokens, MaxReasonLen) :
          /\ inv = Invoke("returned", 1, 1, NoError,
                          Response(<< "{", "E", ",", "R", "}" >>, ReasonStr(str)), NoError)
          /\ settled = Resolved(Response(<< "{", "E", ",", "R", "}" >>, ReasonStr(str)))
  /\ trace = << Ev("call", "", 0, 1) >>

Interpret ==
  /\ pc = "interpret"
  /\ UNCHANGED << stale, gate, probe >>
  /\ pc' = "done"
  /\ LET result == processResponse(inv.response, << "interpret", 1 >>)
     IN outcome' = [st |-> IF result.ok THEN "returned" ELSE "failed", result |-> result]
  /\ UNCHANGED << appVars, apiKey, job, extracted, encoded, modelIdx, lastError, inv,
                  progressInterval, trace, settled >>

NextInterpret == Interpret

SpecInterpret == InitInterpret /\ [][NextInterpret]_vars

\* ---------------------------------------------------------- PDFDropzone alone
\* The syllabus slot and its PDFDropzone, with the App idle.
\* A document with the keywords of a syllabus under a name that is no PDF's.
Notes == File("notes", FALSE, << << Kw("syllabus"), Sp, Kw("exam"), Sp, Kw("marks") >> >>)
Image == File("image", FALSE, << << Kw("course"), Sp, Kw("unit") >> >>)
Nameless == File("nameless", FALSE, << << Kw("paper"), Sp, Kw("topic") >> >>)

Uploads ==
  { Upload(<< "syllabus", ".pdf" >>, "application/pdf", Syllabus),
    Upload(<< "receipt", ".PDF" >>, "application/pdf", Receipt),
    Upload(<< "scanned", ".pdf" >>, "application/pdf", Scanned),
    Upload(<< "diluted", ".Pdf" >>, "application/pdf", Diluted),
    Upload(<< "notes", ".pdf", ".txt" >>, "application/pdf", Notes),
    Upload(<< "image", ".pdf" >>, "image/png", Image),
    Upload(<<>>, "application/pdf", Nameless) }

TheDropzone == Dropzone(syllabusFile, gate)

\* The dropzone's handler has run: onFileSelect is the App's setSyllabusFile.
GateStep(d) ==
  /\ syllabusFile' = d.file
  /\ gate' = d.gate
  /\ UNCHANGED probe
  /\ UNCHANGED << pyqFile, isAnalyzing, currentStep, analysis, error,
                  invalidDocumentType, apiKey, runVars, stale >>

\* The user drops or picks a file.
Select(u) ==
  /\ Len(gate.checks) < MaxChecks
  /\ GateStep(handleDrop(TheDropzone, u))

\* The extraction of one check in flight settles.
CheckSettles(i) ==
  /\ i \in 1..Len(gate.checks)
  /\ GateStep(checkSettled(TheDropzone, i))

ConfirmAnyway ==
  /\ WarningShown(TheDropzone)
  /\ GateStep(handleConfirmAnyway(TheDropzone))

CancelWarning ==
  /\ WarningShown(TheDropzone)
  /\ GateStep(handleCancelWarning(TheDropzone))

Remove ==
  /\ RemoveShown(TheDropzone)
  /\ GateStep(handleRemove(TheDropzone))

InitGate ==
  /\ Quiet
  /\ probe = NoProbe
  /\ pc = "idle"
  /\ inv = InvokeIdle
  /\ trace = <<>>
  /\ settled = Unsettled

NextGate ==
  \/ \E u \in Uploads : Select(u)
  \/ \E i \in 1..MaxChecks : CheckSettles(i)
  \/ ConfirmAnyway
  \/ CancelWarning
  \/ Remove

SpecGate == InitGate /\ [][NextGate]_vars

\* ================================================================== claims
\* The claims' own reading of an error message.
HasFatalMarker(e) == e.markers \cap {"timeout", "invalid", "quota", "401", "403"} # {}
HasTransientMarker(e) == e.markers \cap {"503", "500", "429", "high demand"} # {}
FatalOrUnknown(e) == HasFatalMarker(e) \/ ~HasTransientMarker(e)
TransientOnly(e) == HasTransientMarker(e) /\ ~HasFatalMarker(e)

EventsOf(tr, kind) == SelectSeq(tr, LAMBDA ev : ev.e = kind)
SleepMs(tr) == [i \in 1..Len(EventsOf(tr, "sleep")) |-> EventsOf(tr, "sleep")[i].n]
LastEvent(tr) == tr[Len(tr)]

\* How PDFDropzone.validateAndSetFile lets a document into a slot.
GatePath(file) ==
  IF file.throws THEN "fail-open"
  ELSE IF hasMinimumAcademicKeywords(extractTextFromPdf(file, 1500), 1000, 2) THEN "passed"
  ELSE "override"

\* C1: once both extractions have settled, if validateDocumentContent does not
\* pass the combined text (two extracts of at most 4000 characters joined by a
\* newline and cut to 8000), the run has failed with INVALID_DOCUMENT, no file
\* was encoded and no model was called, however the files came through the
\* Upload Gate.
C1_GateFailureStopsRun ==
  LET combined == Slice(extracted[1].text \o << Nl >> \o extracted[2].text, 8000)
  IN (/\ \A s \in Slots : extracted[s].st = "settled" /\ TextLen(extracted[s].text) <= 4000
      /\ ~validateDocumentContent(combined).passed)
     => /\ pc = "done"
        /\ outcome.st = "failed"
        /\ outcome.result.error.code = "INVALID_DOCUMENT"
        /\ \A i \in 1..Len(trace) : trace[i].e \notin {"encode", "call"}
        /\ \A s \in Slots : encoded[s] = "idle"
        /\ inv = InvokeIdle

\* C1 witness: the gate has rejected a pair of which one file passed the quick
\* check and the other was let in because its extraction threw.
C1_Witness ==
  /\ pc = "done"
  /\ outcome.result.error = GateError
  /\ GatePath(job[1]) = "passed"
  /\ GatePath(job[2]) = "fail-open"

\* C1 witness of the third way in: a file the user had to confirm.
C1_WitnessOverride ==
  /\ pc = "done"
  /\ outcome.result.error = GateError
  /\ GatePath(job[1]) = "override"

\* The timer or the call that lost a settled race fires: nothing of the
\* program's state changes.
LeftoverFires == stale' # stale /\ UNCHANGED << appVars, apiKey, runVars, gate, probe >>

\* C2: when the call of an attempt raises an error with a fatal marker, or with
\* no transient marker, the activation throws that very error in the same step:
\* nothing is reported, nothing is waited for, and no step follows but the
\* leftovers of settled races; a first attempt that fails so has made one call
\* and no sleep.
C2_FatalThrownAtOnce ==
  [][ ~LeftoverFires =>
      /\ inv.st # "thrown"
      /\ (inv.st = "calling" /\ settled'.k = "rejected" /\ FatalOrUnknown(settled'.error))
           => /\ inv'.st = "thrown"
              /\ inv'.error = settled'.error
              /\ inv'.attempt = inv.attempt
              /\ trace' = trace
              /\ LastEvent(trace').e = "call"
              /\ (inv.attempt = 1 => trace' = << Ev("call", "", 0, 1) >>) ]_vars

\* C2 witness: a first-attempt error with '401' and '503' has been thrown
\* although retries were left.
C2_Witness ==
  /\ inv.st = "thrown"
  /\ inv.attempt = 1
  /\ inv.maxRetries = 3
  /\ inv.error.markers = {"401", "503"}
  /\ trace = << Ev("call", "", 0, 1) >>

\* C3: a transient error on attempt k < maxRetries is followed by attempt k+1
\* after one wait; when attempt k+1 succeeds the activation returns that call's
\* response having made k+1 calls and k waits, 1000 ms then 2000 ms when k = 2.
C3_RetriesThenSuccess ==
  [][ ~LeftoverFires =>
      /\ (inv.st = "calling" /\ settled'.k = "rejected" /\ TransientOnly(settled'.error)
            /\ inv.attempt < inv.maxRetries)
           => /\ inv'.st = "sleeping"
              /\ inv'.attempt = inv.attempt + 1
              /\ Len(EventsOf(trace', "sleep")) = Len(EventsOf(trace, "sleep")) + 1
              /\ CallCount(trace') = CallCount(trace)
      /\ inv.st = "sleeping"
           => /\ inv'.st = "calling"
              /\ inv'.attempt = inv.attempt
              /\ trace' = trace \o << Ev("call", "", 0, inv.attempt) >>
      /\ (inv.st = "calling" /\ settled'.k = "resolved")
           => /\ inv'.st = "returned"
              /\ inv'.response = settled'.response
              /\ CallCount(trace') = inv.attempt
              /\ Len(EventsOf(trace', "sleep")) = inv.attempt - 1
              /\ (inv.attempt = 3 => SleepMs(trace') = << 1000, 2000 >>) ]_vars

\* C3 witness: the third of three attempts has succeeded.
C3_Witness ==
  /\ inv.st = "returned"
  /\ inv.attempt = 3
  /\ inv.maxRetries = 3
  /\ CallCount(trace) = 3
  /\ SleepMs(trace) = << 1000, 2000 >>

\* C4: when the last of maxRetries attempts raises a transient error too, the
\* activation has made maxRetries calls and throws the error of that last
\* attempt, with no report and no wait after the last call.
C4_ExhaustedThrowsLast ==
  [][ ~LeftoverFires =>
      /\ inv.st # "thrown"
      /\ (inv.st = "calling" /\ inv.attempt = inv.maxRetries /\ settled'.k = "rejected"
            /\ TransientOnly(settled'.error))
           => /\ inv'.st = "thrown"
              /\ inv'.error = settled'.error
              /\ inv'.error.origin = << "call", inv.maxRetries >>
              /\ CallCount(trace') = inv.maxRetries
              /\ trace' = trace
              /\ LastEvent(trace') = Ev("call", "", 0, inv.maxRetries) ]_vars

\* C4 witness: three transient errors out of three attempts.
C4_Witness ==
  /\ inv.st = "thrown"
  /\ inv.attempt = 3
  /\ inv.maxRetries = 3
  /\ TransientOnly(inv.error)
  /\ inv.error.origin = << "call", 3 >>

\* The waits the claim lists.
C5_ListedWait(n) ==
  CASE n = 2 -> 1000 [] n = 3 -> 2000 [] n = 4 -> 4000 [] n = 5 -> 8000 [] OTHER -> 10000

\* C5: the trace of an activation is call 1, then for n = 2, 3, ... the report
\* 'Retrying... (Attempt n/m)', the wait of min(1000 * 2^(n-2), 10000) ms and
\* call n, in that order; the waits never decrease and never exceed 10000 ms.
C5_BackoffSchedule ==
  /\ trace[1] = Ev("call", "", 0, 1)
  /\ \A i \in 1..Len(trace) :
       /\ trace[i].e = "report"
            => /\ trace[i] = Retrying(0, trace[i].n, inv.maxRetries)
               /\ trace[i].n >= 2
               /\ trace[i - 1] = Ev("call", "", 0, trace[i].n - 1)
               /\ i < Len(trace)
               /\ trace[i + 1] = Ev("sleep", "backoff", 0, C5_ListedWait(trace[i].n))
       /\ trace[i].e = "sleep" => trace[i - 1].e = "report"
       /\ (trace[i].e = "call" /\ i > 1)
            => /\ trace[i - 1].e = "sleep"
               /\ trace[i].n = trace[i - 2].n
  /\ \A i \in 1..Len(SleepMs(trace)) :
       /\ SleepMs(trace)[i] <= 10000
       /\ SleepMs(trace)[i] = Min(1000 * 2 ^ (i - 1), 10000)
       /\ i > 1 => SleepMs(trace)[i - 1] <= SleepMs(trace)[i]

\* C5 witness: the seventh attempt is under way after waits that reached the cap.
C5_Witness ==
  /\ inv.st = "calling"
  /\ inv.attempt = 7
  /\ SleepMs(trace) = << 1000, 2000, 4000, 8000, 10000, 10000 >>

\* The activation on the current model has used up its retries on a transient error.
ExhaustedTransient(iv) ==
  iv.st = "thrown" /\ iv.attempt = iv.maxRetries /\ TransientOnly(iv.error)

C7_FatalStopsFallback ==
  (inv.st = "thrown" /\ FatalOrUnknown(inv.error))
    => /\ pc = "done"
       /\ outcome.st = "failed"

\* C8 as claimed: when the run ends after every model of the list was given up
\* as unavailable, the last of them on a transient error at its third attempt,
\* the error that leaves the run and the message shown carry the
\* all-models-unavailable text.
C8_AllModelsUnavailable ==
  (/\ pc = "done"
   /\ Len(trace) > 0
   /\ LastEvent(trace) = Ev("sleep", "fallback", Len(modelsToTry), 2000)
   /\ \A m \in 1..Len(modelsToTry) :
        \E i \in 1..Len(trace) : trace[i] = Ev("report", "unavailable", m, 0)
   /\ inv.st = "thrown"
   /\ inv.attempt = inv.maxRetries
   /\ TransientOnly(inv.error))
    => /\ outcome.st = "failed"
       /\ outcome.result.error.text = AllModelsMessage
       /\ error = AllModelsMessage

\* The object processResponse finds in the response: by the strict parse, or
\* else by the brace scan.
ObjectOf(response) ==
  LET jsonText == jsonTextOf(response.text)
      strict == JsonParse(Trim(jsonText, "W"), response.reason)
      scanned == JsonParse(jsonObjectMatch(jsonText), response.reason)
  IN IF strict.ok THEN strict.value ELSE scanned.value

\* The reason is '... detected: <label>)' with one 'detected:' and a label that
\* is not blank.
PlainLabel(reason) ==
  /\ reason.t = "str"
  /\ Cardinality({i \in 1..Len(reason.s) : reason.s[i] = "D"}) = 1
  /\ LET d == FirstAt(reason.s, 1, "D", TRUE)
         close == FirstAt(reason.s, d, ")", TRUE)
     IN /\ close <= Len(reason.s)
        /\ \E i \in (d + 1)..(close - 1) : reason.s[i] # " "

LabelOf(reason) ==
  LET d == FirstAt(reason.s, 1, "D", TRUE)
      close == FirstAt(reason.s, d, ")", TRUE)
  IN Trim(SubSeq(reason.s, d + 1, close - 1), " ")

\* C9 as claimed: processResponse of a response whose object has error equal to
\* 'INVALID_DOCUMENT' throws INVALID_DOCUMENT, never a parse failure, whether
\* the object is found by the strict parse or by the brace scan; the label is
\* the trimmed text between 'detected:' and the closing parenthesis, or the
\* generic label when the reason has no 'detected:'.
C9_SentinelIsInvalidDocument ==
  (pc = "done" /\ ObjectOf(inv.response).error)
    => /\ outcome.st = "failed"
       /\ outcome.result.error.code = "INVALID_DOCUMENT"
       /\ PlainLabel(ObjectOf(inv.response).reason)
            => outcome.result.error.detectedType = LabelOf(ObjectOf(inv.response).reason)
       /\ ~HasToken(ObjectOf(inv.response).reason.s, "D")
            => outcome.result.error.detectedType = GenericLabel

\* C10 as claimed: once processResponse has thrown INVALID_DOCUMENT for the
\* response of the last call, the run is over: that error left it unchanged, no
\* further model is tried, and the App shows the invalid-document state with
\* the error's label.
C10_InvalidDocumentEndsRun ==
  LET thrown == processResponse(settled.response, << "interpret", CallCount(trace) >>)
  IN (/\ pc \notin {"invoke", "interpret"}
      /\ settled.k = "resolved"
      /\ ~thrown.ok
      /\ thrown.error.code = "INVALID_DOCUMENT")
     => /\ pc = "done"
        /\ outcome.st = "failed"
        /\ outcome.result.error = thrown.error
        /\ error = << "INVALID_DOCUMENT" >>
        /\ invalidDocumentType = thrown.error.detectedType

\* C11: at most one elapsed-time ticker is running, it is the ticker of the
\* model being called, and none is running unless the run is suspended inside
\* generateContentWithRetry (in a model call or a backoff sleep): none while
\* the run waits before the next model, and none once it has returned or
\* failed, so the elapsed-time report is on show only during such an attempt.
C11_TickerStopped ==
  /\ Cardinality(progressInterval) <= 1
  /\ progressInterval \subseteq {modelIdx}
  /\ pc \notin {"calling", "backoff"} => progressInterval = {}
  /\ currentStep.label = "Step 3 elapsed"
       => /\ pc \in {"calling", "backoff"}
          /\ currentStep.m = modelIdx

\* C11 witness: the first model's attempt ended in a fallback, the second
\* model answered, the elapsed time was on show in between and no ticker is left.
C11_Witness ==
  /\ pc = "done"
  /\ outcome.st = "returned"
  /\ modelIdx = 2
  /\ progressInterval = {}
  /\ \E i \in 1..Len(trace) : trace[i] = Ev("report", "Step 3", 1, 0)

\* C11 second witness: the elapsed-time report of the second model is on show.
C11_WitnessTick ==
  /\ pc = "backoff"
  /\ currentStep = Elapsed(2)
  /\ progressInterval = {2}

\* C12: when the 120 s timer of the attempt in flight wins the race, the attempt
\* fails with the timeout error and the run is over in the same step: nothing
\* is reported, slept or called again, no other model is tried, no ticker is
\* left, and the App shows the timeout message.  When the loser of a settled
\* race fires later - the call that was outrun, or the timer of an earlier
\* attempt - nothing of the App or of the run changes.
C12_TimeoutIsFatal ==
  [][ /\ (pc = "calling" /\ stale'.calls = stale.calls + 1)
           => /\ settled' = Rejected(TimeoutError(trace))
              /\ pc' = "done"
              /\ outcome'.st = "failed"
              /\ outcome'.result.error.text = TimeoutMessage
              /\ error' = TimeoutMessage
              /\ invalidDocumentType' = <<>>
              /\ analysis' = NoAnalysis
              /\ ~isAnalyzing'
              /\ trace' = trace
              /\ modelIdx' = modelIdx
              /\ inv'.st = "thrown"
              /\ inv'.attempt = inv.attempt
              /\ progressInterval' = {}
      /\ (stale'.timers < stale.timers \/ stale'.calls < stale.calls)
           => UNCHANGED << appVars, apiKey, runVars, gate, probe >> ]_vars

\* C12 witness: the second attempt on the first model timed out after the
\* first had failed on a transient error; the timer of the first attempt and
\* the call of the second have both come in since, and the timeout message
\* still stands.
C12_Witness ==
  /\ pc = "done"
  /\ outcome.st = "failed"
  /\ error = TimeoutMessage
  /\ lastError = Err("", << "Request timeout" >>, {"timeout"}, <<>>, << "timer", 2 >>)
  /\ inv.attempt = 2
  /\ modelIdx = 1
  /\ stale = NoStale

\* The files whose check is in flight.
InFlight(g) == {g.checks[i] : i \in 1..Len(g.checks)}

\* At least 2 distinct keywords in the first 1000 characters of the extract.
PassesQuickCheck(f) ==
  Cardinality({k \in 1..Len(ACADEMIC_KEYWORDS) :
                 IncludesKeyword(Slice(extractTextFromPdf(f, 1500), 1000),
                                 ACADEMIC_KEYWORDS[k])}) >= 2

\* C13: in every step of the Upload Gate, a file that becomes the slot's
\* accepted file was in a check that just settled and passed the quick check or
\* threw in extraction, or was the pending file under the warning and the step
\* is its confirmation; a file that becomes pending has just failed the quick
\* check, is not accepted by that step, and the warning is shown with it; and
\* a pending file and the warning always go together.
C13_GateAcceptance ==
  [][ /\ (syllabusFile' # syllabusFile /\ syllabusFile' # NoFile)
           => \/ /\ syllabusFile' \in InFlight(gate)
                 /\ Len(gate'.checks) = Len(gate.checks) - 1
                 /\ syllabusFile'.throws \/ PassesQuickCheck(syllabusFile')
              \/ /\ gate.pendingFile = syllabusFile'
                 /\ gate.showAcademicWarning
                 /\ gate'.pendingFile = NoFile
                 /\ ~gate'.showAcademicWarning
                 /\ gate'.checks = gate.checks
      /\ (gate'.pendingFile # gate.pendingFile /\ gate'.pendingFile # NoFile)
           => /\ gate'.pendingFile \in InFlight(gate)
              /\ ~gate'.pendingFile.throws
              /\ ~PassesQuickCheck(gate'.pendingFile)
              /\ gate'.showAcademicWarning
              /\ syllabusFile' = syllabusFile
      /\ (gate'.pendingFile # NoFile) <=> gate'.showAcademicWarning ]_vars

\* C13 witness: the receipt, which fails the quick check, is the accepted
\* file: it was pending and the user confirmed it.
C13_Witness ==
  /\ syllabusFile = Receipt
  /\ gate = NoGate

\* C13 second witness: a file that passed is accepted while another, which
\* failed, is held as pending under the warning.
C13_WitnessPending ==
  /\ syllabusFile = Diluted
  /\ gate.pendingFile = Receipt
  /\ gate.showAcademicWarning

\* C14 as claimed: in the step in which the check of a file whose extraction
\* throws settles, that file becomes the accepted file, and after it no warning
\* is shown, no pending file is held and the checking indicator is cleared.
C14_FailOpen ==
  [][ \A i \in 1..Len(gate.checks) :
        (/\ gate.checks[i].throws
         /\ gate'.checks = Without(gate.checks, i)
         /\ syllabusFile' = gate.checks[i])
          => /\ ~gate'.showAcademicWarning
             /\ gate'.pendingFile = NoFile
             /\ ~gate'.isChecking ]_vars

\* What one user action or one check completion can make of a dropzone.
GateSuccessors(d) ==
  (IF Len(d.gate.checks) < MaxChecks THEN {handleDrop(d, u) : u \in Uploads} ELSE {})
    \cup {checkSettled(d, i) : i \in 1..Len(d.gate.checks)}
    \cup (IF WarningShown(d) THEN {handleConfirmAnyway(d), handleCancelWarning(d)} ELSE {})
    \cup (IF RemoveShown(d) THEN {handleRemove(d)} ELSE {})

\* The dropzones that at most n such steps lead to.
RECURSIVE GateReach(_, _)
GateReach(ds, n) ==
  IF n = 0 THEN ds
  ELSE GateReach(ds \cup UNION {GateSuccessors(d) : d \in ds}, n - 1)

GateAccepted(d) == d.file # NoFile
GateEmpty(d) ==
  /\ d.file = NoFile
  /\ d.gate.pendingFile = NoFile
  /\ ~d.gate.showAcademicWarning
  /\ ~d.gate.isChecking

\* C15: from every reachable state of the dropzone, at most MaxChecks + 2 user
\* actions and check completions lead to a state where the slot holds an
\* accepted file, and as many lead to a state where the slot is empty with no
\* pending file, no warning and no check shown in progress; and whenever a
\* file is pending the warning with its confirm and cancel buttons is shown,
\* confirm leading to the first kind of state and cancel to a slot with no file.
C15_NeverBlocked ==
  /\ \E d \in GateReach({TheDropzone}, MaxChecks + 2) : GateAccepted(d)
  /\ \E d \in GateReach({TheDropzone}, MaxChecks + 2) : GateEmpty(d)
  /\ gate.pendingFile # NoFile
       => /\ WarningShown(TheDropzone)
          /\ GateAccepted(handleConfirmAnyway(TheDropzone))
          /\ handleCancelWarning(TheDropzone).file = NoFile
          /\ handleCancelWarning(TheDropzone).gate.pendingFile = NoFile

\* C15 witness: a slot that holds an accepted file while as many checks as
\* can be are in flight and the spinner is shown.
C15_Witness ==
  /\ Len(gate.checks) = MaxChecks
  /\ gate.isChecking
  /\ syllabusFile # NoFile

\* C15 second witness: a pending file under the warning with a check in flight.
C15_WitnessPending ==
  /\ gate.pendingFile # NoFile
  /\ gate.checks # <<>>

\* C16: whenever a file is pending under the warning, confirm makes exactly
\* that file the accepted file and starts no check, cancel leaves the slot
\* with no accepted file, and both clear the pending file and the warning and
\* leave the checks in flight and the checking indicator as they were.
C16_ConfirmAndCancel ==
  WarningShown(TheDropzone)
    => /\ handleConfirmAnyway(TheDropzone)
            = Dropzone(gate.pendingFile,
                       [isChecking |-> gate.isChecking, showAcademicWarning |-> FALSE,
                        pendingFile |-> NoFile, checks |-> gate.checks])
       /\ handleCancelWarning(TheDropzone)
            = Dropzone(NoFile,
                       [isChecking |-> gate.isChecking, showAcademicWarning |-> FALSE,
                        pendingFile |-> NoFile, checks |-> gate.checks])

\* C16 witness: the warning is up for the receipt while another file is the
\* accepted one and a check is in flight.
C16_Witness ==
  /\ WarningShown(TheDropzone)
  /\ gate.pendingFile = Receipt
  /\ syllabusFile = Syllabus
  /\ gate.checks # <<>>

\* C16 second witness: the confirm has acted - the receipt is the accepted
\* file, which only a confirmation can make it - with a check still in flight.
C16_WitnessConfirmed ==
  /\ syllabusFile = Receipt
  /\ gate.pendingFile = NoFile
  /\ gate.checks # <<>>

\* The name ends in '.pdf' in some mix of upper and lower case.
NamedPdf(u) ==
  Len(u.name) > 0 /\ u.name[Len(u.name)] \in {".pdf", ".PDF", ".Pdf"}

\* C17: a file whose name does not end in '.pdf' in any case is never the
\* accepted file, never the pending file and never in a check; and selecting
\* it in any reachable state leaves the dropzone's own state as it was - no
\* check started, no warning raised, no pending file - and the slot either as
\* it was or empty.
C17_NonPdfIgnored ==
  \A u \in Uploads :
    ~NamedPdf(u)
      => /\ syllabusFile # u.file
         /\ gate.pendingFile # u.file
         /\ u.file \notin InFlight(gate)
         /\ handleDrop(TheDropzone, u).gate = gate
         /\ handleDrop(TheDropzone, u).file \in {NoFile, syllabusFile}

\* C17 witness: an accepted file, a pending file under the warning and a
\* check in flight, where the ill-named files have been offered on the way.
C17_Witness ==
  /\ syllabusFile = Syllabus
  /\ gate.pendingFile = Receipt
  /\ gate.checks = << Scanned >>
  /\ handleDrop(TheDropzone, Upload(<< "notes", ".pdf", ".txt" >>, "application/pdf", Notes))
       = Dropzone(NoFile, gate)

\* C18: while the application is not analyzing and the syllabus or the past
\* papers are missing, no step starts a run: the application stays out of the
\* analyzing state, nothing is extracted, encoded or sent to a model, and with
\* no result on screen the only change to the error is the validation
\* message; a step that enters the analyzing state starts from both files
\* present and runs on those two files.
C18_MissingInputStartsNothing ==
  [][ /\ (~isAnalyzing /\ (syllabusFile = NoFile \/ pyqFile = NoFile))
         => /\ ~isAnalyzing'
            /\ pc' = pc
            /\ trace' = trace
            /\ job' = job
            /\ (analysis = NoAnalysis /\ error' # error) => error' = MissingInputMessage
      /\ (~isAnalyzing /\ isAnalyzing')
         => /\ canAnalyze
            /\ job' = << syllabusFile, pyqFile >>
            /\ job'[1] # NoFile /\ job'[2] # NoFile ]_vars

\* C18 witness: handleAnalyze has run with exactly one file missing and left
\* the validation message, with no run started.
C18_Witness ==
  /\ error = MissingInputMessage
  /\ syllabusFile # NoFile
  /\ pyqFile = NoFile
  /\ ~isAnalyzing
  /\ pc = "idle"
  /\ trace = <<>>

\* Neither JSON.parse of the fenced content (else of the whole text) nor
\* JSON.parse of the brace-delimited substring gives a value.
Unparseable(response) ==
  LET jsonText == jsonTextOf(response.text)
  IN /\ ~JsonParse(Trim(jsonText, "W"), response.reason).ok
     /\ ~JsonParse(jsonObjectMatch(jsonText), response.reason).ok

\* C19: a response whose text parses neither strictly nor through the brace
\* recovery makes processResponse fail with the one parse-failure error - the
\* 'Failed to parse JSON response' message, not INVALID_DOCUMENT - whether or
\* not the text has a brace-delimited substring.
C19_MalformedResponse ==
  (pc = "done" /\ Unparseable(inv.response))
    => /\ outcome.st = "failed"
       /\ outcome.result.error.code # "INVALID_DOCUMENT"
       /\ outcome.result.error.text = ParseFailureText

\* With a brace-delimited substring in the text the parse failure is the
\* generic one.
C19_WithBraces ==
  (pc = "done" /\ Unparseable(inv.response)
     /\ jsonObjectMatch(jsonTextOf(inv.response.text)) # <<>>)
    => /\ outcome.st = "failed"
       /\ outcome.result.error.code # "INVALID_DOCUMENT"
       /\ outcome.result.error.text = ParseFailureText

\* JSON.stringify of a parsed value: its members between braces.
Serialize(value) ==
  LET members == (IF value.error THEN << "E" >> ELSE <<>>)
                   \o (IF value.reason.t # "absent" THEN << "R" >> ELSE <<>>)
                   \o (IF value.topics THEN << "T" >> ELSE <<>>)
      commas == [k \in 1..(2 * Len(members) - 1) |->
                   IF k % 2 = 1 THEN members[(k + 1) \div 2] ELSE ","]
  IN << "{" >> \o (IF members = <<>> THEN <<>> ELSE commas) \o << "}" >>

\* A well-formed result: the topics (with the summary), no error and no reason.
AnalysisResult == [error |-> FALSE, topics |-> TRUE, reason |-> ReasonAbsent]

\* The text is r serialized in a fenced block, with or without other text
\* before the block and after it.
FencedAround(text, r) ==
  \E w \in Wrappers :
    /\ HasToken(w[1], "F") /\ HasToken(w[2], "F")
    /\ text = w[1] \o Serialize(r) \o w[2]

\* The same, with no fence in the text before the block's own.
OneBlockAround(text, r) ==
  \E w \in Wrappers :
    /\ HasToken(w[1], "F") /\ HasToken(w[2], "F")
    /\ FirstAt(w[1], FirstAt(w[1], 1, "F", TRUE) + 1, "F", TRUE) > Len(w[1])
    /\ text = w[1] \o Serialize(r) \o w[2]

MaxPages == 3

\* The text items of one page: the three-keyword line, an upper-case keyword
\* between empty items, a keyword twice, two keywords run together, no item
\* at all, and filler of 497, 997, 998 and 2500 words.
PageItems ==
  { << << Kw("syllabus") >>, << Kw("unit") >>, << Kw("marks") >> >>,
    << <<>>, << KwUp("exam") >>, <<>> >>,
    << << Kw("syllabus") >>, << Kw("syllabus") >> >>,
    << << Kw("exam"), Kw("paper") >> >>,
    <<>>,
    << << Fill(497) >> >>,
    << << Fill(997) >> >>,
    << << Fill(998) >> >>,
    << << Fill(2500) >> >> }

\* The values of maxChars, firstNChars and minKeywords tried.
Budgets == {0, 5, 10, 1500, 4000, 8000}
Prefixes == {3, 12, 1000}
Minimums == {1, 2, 3}

NoDensity == [score |-> [num |-> 0, den |-> 1], passed |-> FALSE, keywordCount |-> 0,
              distinctKeywords |-> 0]

Probe(st, items, maxChars, text, read, density, firstNChars, minKeywords, quick) ==
  [st |-> st, items |-> items, maxChars |-> maxChars, text |-> text, read |-> read,
   density |-> density, firstNChars |-> firstNChars, minKeywords |-> minKeywords,
   quick |-> quick]

\* The document whose pages hold the given items.
DocumentOf(items) == File("doc", FALSE, [i \in 1..Len(items) |-> PageText(items[i])])

InitText ==
  /\ Quiet
  /\ pc = "idle"
  /\ inv = InvokeIdle
  /\ trace = <<>>
  /\ settled = Unsettled
  /\ \E items \in SeqsUpTo(PageItems, MaxPages) :
       probe = Probe("document", items, 0, <<>>, 0, NoDensity, 0, 0, FALSE)

\* extractTextFromPdf(file, maxChars) returns
ExtractText ==
  /\ probe.st = "document"
  /\ \E maxChars \in Budgets :
       probe' = [probe EXCEPT
                   !.st = "text",
                   !.maxChars = maxChars,
                   !.text = extractTextFromPdf(DocumentOf(probe.items), maxChars),
                   !.read = PagesRead(DocumentOf(probe.items).pages, 1, <<>>, maxChars)]
  /\ UNCHANGED << appVars, apiKey, runVars, stale, gate >>

\* validateDocumentContent(text) returns
DensityCheck ==
  /\ probe.st = "text"
  /\ probe' = [probe EXCEPT !.st = "density", !.density = validateDocumentContent(probe.text)]
  /\ UNCHANGED << appVars, apiKey, runVars, stale, gate >>

\* hasMinimumAcademicKeywords(text, firstNChars, minKeywords) returns
QuickCheck ==
  /\ probe.st = "text"
  /\ \E firstNChars \in Prefixes, minKeywords \in Minimums :
       probe' = [probe EXCEPT
                   !.st = "quick",
                   !.firstNChars = firstNChars,
                   !.minKeywords = minKeywords,
                   !.quick = hasMinimumAcademicKeywords(probe.text, firstNChars, minKeywords)]
  /\ UNCHANGED << appVars, apiKey, runVars, stale, gate >>

NextText == ExtractText \/ DensityCheck \/ QuickCheck

SpecText == InitText /\ [][NextText]_vars

\* ------------------------------------------------------- exportToMarkdown alone
\* Most topics in a result, most exports of one result, and the days they span.
MaxTopics == 3
MaxExports == 2
MaxDays == 2

Topic(name, confidence, effort, reward, frequency, priority, keyConcepts) ==
  [name |-> name, confidence |-> confidence, effort |-> effort, reward |-> reward,
   frequency |-> frequency, priority |-> priority, keyConcepts |-> keyConcepts]

\* One line of the markdown: its kind, its text, its number and its list.
Line(k, text, n, list) == [k |-> k, text |-> text, n |-> n, list |-> list]

\* A sort that puts the later of two equal topics first.
RECURSIVE InsertBeforeEquals(_, _)
InsertBeforeEquals(topic, sorted) ==
  IF sorted = <<>> THEN << topic >>
  ELSE IF Head(sorted).confidence > topic.confidence
    THEN << Head(sorted) >> \o InsertBeforeEquals(topic, Tail(sorted))
    ELSE << topic >> \o sorted

\* [...topics].sort((a, b) => b.confidence - a.confidence): the sort is stable,
\* a topic goes after those that compare greater or equal.
RECURSIVE InsertByConfidence(_, _)
InsertByConfidence(topic, sorted) ==
  IF sorted = <<>> THEN << topic >>
  ELSE IF Head(sorted).confidence >= topic.confidence
    THEN << Head(sorted) >> \o InsertByConfidence(topic, Tail(sorted))
    ELSE << topic >> \o sorted

RECURSIVE sortedTopics(_)
sortedTopics(topics) ==
  IF topics = <<>> THEN <<>>
  ELSE LET n == Len(topics)
       IN InsertByConfidence(topics[n], sortedTopics(SubSeq(topics, 1, n - 1)))

\* The lines of one topic, index being its place in the sorted list.
TopicLines(topic, index) ==
  << Line("h3", topic.name, index, <<>>),
     Line("Confidence Score", "", topic.confidence, <<>>),
     Line("Effort Level", topic.effort, 0, <<>>),
     Line("Reward Level", topic.reward, 0, <<>>),
     Line("Frequency", "", topic.frequency, <<>>) >>
    \o (IF topic.priority # "" THEN << Line("Priority", topic.priority, 0, <<>>) >> ELSE <<>>)
    \o (IF Len(topic.keyConcepts) > 0
          THEN << Line("Key Concepts", "", 0, topic.keyConcepts) >> ELSE <<>>)
    \o (IF topic.effort = "Low" /\ topic.reward = "High"
          THEN << Line("Low Effort, High Reward Topic", "", 0, <<>>) >> ELSE <<>>)
    \o << Line("blank", "", 0, <<>>) >>

RECURSIVE AllTopicLines(_, _)
AllTopicLines(sorted, index) ==
  IF index > Len(sorted) THEN <<>>
  ELSE TopicLines(sorted[index], index) \o AllTopicLines(sorted, index + 1)

\* The markdown built by exportToMarkdown on the day given:
\* new Date().toLocaleDateString() is in its second line.
exportToMarkdown(result, today) ==
  << Line("h1", "NITP Exam Priority List", 0, <<>>),
     Line("Generated on", "", today, <<>>) >>
    \o (IF result.summary.set
          THEN << Line("h2", "Summary", 0, <<>>),
                  Line("Total Topics", "", result.summary.totalTopics, <<>>),
                  Line("High Priority Topics", "", result.summary.highPriorityCount, <<>>),
                  Line("Low Effort, High Reward Topics", "",
                       result.summary.lowEffortHighReward, <<>>) >>
          ELSE <<>>)
    \o << Line("h2", "Priority List", 0, <<>>) >>
    \o AllTopicLines(sortedTopics(result.topics), 1)

\* The topics a result may hold: two of equal confidence, one low-effort
\* high-reward, one without priority or key concepts.
Topics ==
  { Topic("Trees", 90, "Low", "High", 5, "High", << "AVL", "heaps" >>),
    Topic("Graphs", 90, "Medium", "High", 4, "High", << "BFS" >>),
    Topic("Sorting", 70, "High", "Low", 2, "", <<>>),
    Topic("Hashing", 50, "Low", "High", 1, "Low", << "probing" >>) }

Summary(set, topics) ==
  [set |-> set,
   totalTopics |-> IF set THEN Len(topics) ELSE 0,
   highPriorityCount |->
     IF set THEN Cardinality({i \in 1..Len(topics) : topics[i].priority = "High"}) ELSE 0,
   lowEffortHighReward |->
     IF set THEN Cardinality({i \in 1..Len(topics) :
                                topics[i].effort = "Low" /\ topics[i].reward = "High"})
     ELSE 0]

\* A sequence without repeats.
Distinct(seq) == \A i, j \in 1..Len(seq) : seq[i] = seq[j] => i = j

InitExport ==
  /\ Quiet
  /\ pc = "idle"
  /\ inv = InvokeIdle
  /\ trace = <<>>
  /\ settled = Unsettled
  /\ \E topics \in SeqsUpTo(Topics, MaxTopics), hasTopics \in BOOLEAN, set \in BOOLEAN :
       /\ Distinct(topics)
       /\ hasTopics \/ (topics = <<>> /\ ~set)
       /\ probe = [st |-> "export",
                   analysis |-> [hasTopics |-> hasTopics, topics |-> topics,
                                 summary |-> Summary(set, topics)],
                   today |-> 1,
                   exports |-> <<>>]

\* The Export button is pressed: without topics there is an alert and nothing
\* is saved, otherwise the markdown is saved as a file.
ExportToMarkdown ==
  /\ probe.st = "export"
  /\ Len(probe.exports) < MaxExports
  /\ probe' = [probe EXCEPT !.exports =
                 Append(@, [on |-> probe.today,
                            saved |-> probe.analysis.hasTopics,
                            markdown |-> IF probe.analysis.hasTopics
                                           THEN exportToMarkdown(probe.analysis, probe.today)
                                           ELSE <<>>])]
  /\ UNCHANGED << appVars, apiKey, runVars, stale, gate >>

\* The date changes.
Midnight ==
  /\ probe.st = "export"
  /\ probe.today < MaxDays
  /\ probe' = [probe EXCEPT !.today = @ + 1]
  /\ UNCHANGED << appVars, apiKey, runVars, stale, gate >>

NextExport == ExportToMarkdown \/ Midnight

SpecExport == InitExport /\ [][NextExport]_vars

\* ------------------------------ claims on the text functions and the export
\* The vocabulary terms that occur in a text, and the occurrences of all of them.
TermsIn(text) ==
  {ACADEMIC_KEYWORDS[k] : k \in 1..Len(ACADEMIC_KEYWORDS)}
    \cap {text[i].w : i \in {j \in 1..Len(text) : text[j].t = "kw"}}

OccurrencesIn(text) ==
  Cardinality({i \in 1..Len(text) :
                 text[i].t = "kw" /\ \E k \in 1..Len(ACADEMIC_KEYWORDS) :
                                         ACADEMIC_KEYWORDS[k] = text[i].w})

C21_WitnessShort ==
  /\ probe.st = "density"
  /\ probe.text = << Kw("syllabus"), Sp, Kw("unit"), Sp, Kw("marks"), Nl >>
  /\ probe.density.passed

\* C21 third witness: two terms and a score under the floor have failed.
C21_WitnessSparse ==
  /\ probe.st = "density"
  /\ ~probe.density.passed
  /\ probe.density.distinctKeywords >= 2
  /\ probe.density.keywordCount > 0

\* C22: the score returned is min(100, 100 * totalOccurrences / wordCount),
\* totalOccurrences counting every match of every vocabulary term in either
\* case and wordCount the whitespace-delimited non-empty tokens; it lies in
\* [0, 100]; and with no words - the empty text among them - the score is 0 and
\* passed is false, no quotient being taken.
C22_DensityScore ==
  probe.st = "density"
    => LET occ == OccurrencesIn(probe.text)
           words == WordCount(probe.text)
           score == probe.density.score
       IN /\ probe.density.keywordCount = occ
          /\ score.den > 0
          /\ 0 <= score.num /\ score.num <= 100 * score.den
          /\ words > 0 =>
                IF occ >= words THEN score.num = 100 * score.den
                ELSE score.num * words = 100 * occ * score.den
          /\ words = 0 => (score.num = 0 /\ ~probe.density.passed)
          /\ probe.text = <<>> => (score.num = 0 /\ ~probe.density.passed)

\* C22 witness: two terms in one word are scored at the cap of 100.
C22_Witness ==
  /\ probe.st = "density"
  /\ probe.density.keywordCount > WordCount(probe.text)
  /\ WordCount(probe.text) > 0
  /\ probe.density.score.num = 100 * probe.density.score.den

\* C22 second witness: a text of newlines only, which has no word.
C22_WitnessNoWords ==
  /\ probe.st = "density"
  /\ probe.text # <<>>
  /\ WordCount(probe.text) = 0
  /\ probe.density.score.num = 0

\* C22 third witness: the empty text.
C22_WitnessEmpty ==
  /\ probe.st = "density"
  /\ probe.text = <<>>
  /\ probe.items # <<>>
  /\ ~probe.density.passed

\* C22 fourth witness: an upper-case term counted among a thousand words.
C22_WitnessFraction ==
  /\ probe.st = "density"
  /\ \E i \in 1..Len(probe.text) : probe.text[i].u
  /\ probe.density.keywordCount = 4
  /\ probe.density.score.den > 500

\* The vocabulary terms with an occurrence that ends at or before character n.
TermsWithin(text, n) ==
  {ACADEMIC_KEYWORDS[k] : k \in 1..Len(ACADEMIC_KEYWORDS)}
    \cap {text[i].w : i \in {j \in 1..Len(text) :
                                 text[j].t = "kw" /\ TextLen(SubSeq(text, 1, j)) <= n}}

\* C23: hasMinimumAcademicKeywords(text, firstNChars, minKeywords) is true
\* exactly when at least minKeywords distinct vocabulary terms occur, in either
\* case, wholly within the first firstNChars characters of the text; with every
\* keyword past character 5000 and firstNChars = 1000 it is false.
C23_QuickCheckPrefix ==
  probe.st = "quick"
    => /\ probe.quick
            <=> Cardinality(TermsWithin(probe.text, probe.firstNChars)) >= probe.minKeywords
       /\ (probe.firstNChars = 1000
              /\ \A j \in 1..Len(probe.text) :
                    probe.text[j].t = "kw" => TextLen(SubSeq(probe.text, 1, j - 1)) >= 5000)
            => ~probe.quick

\* C23 witness: three terms after 5000 characters of filler, 1000 characters
\* looked at, one term asked for, and the answer is false.
C23_Witness ==
  /\ probe.st = "quick"
  /\ probe.firstNChars = 1000
  /\ probe.minKeywords = 1
  /\ Cardinality(TermsIn(probe.text)) = 3
  /\ \A j \in 1..Len(probe.text) :
        probe.text[j].t = "kw" => TextLen(SubSeq(probe.text, 1, j - 1)) >= 5000
  /\ ~probe.quick

\* C23 second witness: 'unit' is cut by the twelfth character and does not
\* count, 'syllabus' does.
C23_WitnessCut ==
  /\ probe.st = "quick"
  /\ probe.firstNChars = 12
  /\ probe.minKeywords = 2
  /\ Len(probe.text) >= 3
  /\ SubSeq(probe.text, 1, 3) = << Kw("syllabus"), Sp, Kw("unit") >>
  /\ ~probe.quick

\* C23 third witness: two terms within the prefix, in upper and lower case.
C23_WitnessTrue ==
  /\ probe.st = "quick"
  /\ probe.firstNChars = 1000
  /\ probe.minKeywords = 2
  /\ Len(probe.text) >= 3
  /\ SubSeq(probe.text, 1, 3) = << KwUp("exam"), Nl, Kw("syllabus") >>
  /\ probe.quick

\* One page's non-empty items with a space between each two.
RECURSIVE C24_Spaced(_)
C24_Spaced(items) ==
  IF items = <<>> THEN <<>>
  ELSE IF Head(items) = <<>> THEN C24_Spaced(Tail(items))
  ELSE IF C24_Spaced(Tail(items)) = <<>> THEN Head(items)
  ELSE Head(items) \o << Sp >> \o C24_Spaced(Tail(items))

\* The first n pages, each followed by a newline, one after the other.
RECURSIVE C24_Concatenation(_, _)
C24_Concatenation(pages, n) ==
  IF n = 0 THEN <<>>
  ELSE C24_Concatenation(pages, n - 1) \o C24_Spaced(pages[n]) \o << Nl >>

\* C24: extractTextFromPdf(file, maxChars) returns the first
\* min(maxChars, L) characters of the concatenation of all pages in order,
\* each page being its non-empty items joined by spaces and followed by a
\* newline, and L that concatenation's length; the result is never longer
\* than maxChars, it is a prefix of the result for every larger maxChars, and
\* a page is fetched only when the pages before it gave fewer than maxChars
\* characters.
C24_ExtractIsPrefix ==
  probe.st \in {"text", "density", "quick"}
    => LET all == C24_Concatenation(probe.items, Len(probe.items))
       IN /\ probe.text = Slice(all, probe.maxChars)
          /\ TextLen(probe.text) = Min(probe.maxChars, TextLen(all))
          /\ TextLen(probe.text) <= probe.maxChars
          /\ \A larger \in Budgets :
                larger > probe.maxChars
                  => probe.text = Slice(extractTextFromPdf(DocumentOf(probe.items), larger),
                                        probe.maxChars)
          /\ probe.read <= Len(probe.items)
          /\ \A i \in 1..probe.read :
                TextLen(C24_Concatenation(probe.items, i - 1)) < probe.maxChars

\* C24 witness: ten characters were asked of a document of three pages; the
\* first page alone was fetched and is cut inside its second word.
C24_Witness ==
  /\ probe.st = "text"
  /\ probe.maxChars = 10
  /\ Len(probe.items) = 3
  /\ probe.read = 1
  /\ probe.text = << Kw("syllabus"), Sp, Part("unit", 1) >>

\* C24 second witness: the document is shorter than the budget and comes
\* back whole, empty items left out.
C24_WitnessWhole ==
  /\ probe.st = "text"
  /\ probe.maxChars = 1500
  /\ probe.read = 2
  /\ probe.text = << KwUp("exam"), Nl, Kw("syllabus"), Sp, Kw("syllabus"), Nl >>

\* The slot whose file cannot be decoded, when there is exactly one.
C25_OneFails(files) == \E s \in Slots : files[s].throws /\ ~files[3 - s].throws
C25_Failed(files) == CHOOSE s \in Slots : files[s].throws

\* C25: in a run where the extraction of exactly one file fails, the step that
\* settles the second extraction leaves the failed file with the empty text
\* and the other with its extract, and decides on the other file's extract
\* alone: if validateDocumentContent passes it the run starts encoding both
\* files, with nothing thrown, otherwise it fails as INVALID_DOCUMENT; and the
\* step that settles the second encoding, the key being set, calls the first
\* model.
C25_ExtractionFailureTolerated ==
  [][ C25_OneFails(job) =>
      LET failed == C25_Failed(job)
          other == 3 - failed
      IN /\ (pc = "extracting" /\ pc' # "extracting")
              => /\ \A s \in Slots : extracted'[s].st = "settled"
                 /\ extracted'[failed].text = <<>>
                 /\ extracted'[other].text = extractTextFromPdf(job[other], 4000)
                 /\ IF validateDocumentContent(extracted'[other].text).passed
                      THEN /\ pc' = "encoding"
                           /\ outcome' = NoOutcome
                           /\ isAnalyzing'
                           /\ trace' = trace \o << Ev("encode", "", 1, 0), Ev("encode", "", 2, 0) >>
                           /\ \A s \in Slots : encoded'[s] = "pending"
                      ELSE /\ pc' = "done"
                           /\ outcome'.result.error.code = "INVALID_DOCUMENT"
         /\ (pc = "extracting" /\ pc' = "extracting")
              => (outcome' = NoOutcome /\ isAnalyzing')
         /\ (pc = "encoding" /\ apiKey /\ \A s \in Slots : encoded'[s] = "done")
              => /\ pc' = "calling"
                 /\ modelIdx' = 1
                 /\ LastEvent(trace') = Ev("call", "", 1, 1) ]_vars

\* C25 witness: the syllabus could not be decoded, the past papers passed the
\* check alone, both files were encoded and the first model is being called.
C25_Witness ==
  /\ pc = "calling"
  /\ job[1].throws /\ ~job[2].throws
  /\ extracted[1] = [st |-> "settled", text |-> <<>>]
  /\ extracted[2].text # <<>>
  /\ \A s \in Slots : encoded[s] = "done"
  /\ CallCount(trace) = 1

\* C25 second witness: the past papers could not be decoded and the run returned.
C25_WitnessReturned ==
  /\ outcome.st = "returned"
  /\ ~job[1].throws /\ job[2].throws
  /\ extracted[2] = [st |-> "settled", text |-> <<>>]

\* The error that left the run, and the error the outer catch was handed when
\* it came out of the model loop.
C26_Left == outcome.result.error
C26_Caught == lastError

C26_Has(word) == word \in C26_Caught.markers

C26_FixedMessages ==
  {TimeoutMessage, QuotaMessage, InvalidKeyMessage, HighDemandMessage, AllModelsMessage}

\* What leaves the run is an INVALID_DOCUMENT error as it was thrown, or a new
\* error with one of the fixed messages or the default message.
C26_OneOfTheMessages ==
  IF C26_Left.code = "INVALID_DOCUMENT"
    THEN /\ C26_Left.origin[1] \in {"gate", "interpret"}
         /\ C26_Caught # NoError => C26_Left = C26_Caught
         /\ C26_Caught = NoError => C26_Left = GateError
    ELSE /\ C26_Left.origin = << "normalize", 0 >>
         /\ \/ C26_Left.text \in C26_FixedMessages
            \/ SubSeq(C26_Left.text, 1, 1) = DefaultPrefix

\* C26 as claimed: what leaves a failed run is an INVALID_DOCUMENT error
\* unchanged or a new error with one of the fixed messages; 'timeout' in the
\* caught message gives the timeout message, else 'quota' the quota message,
\* else 'invalid', '401' or '403' the invalid-key message.
C26_FatalKindsHaveOwnMessage ==
  (pc = "done" /\ outcome.st = "failed")
    => /\ C26_OneOfTheMessages
       /\ (C26_Caught # NoError /\ C26_Caught.code # "INVALID_DOCUMENT")
            => /\ C26_Has("timeout") => C26_Left.text = TimeoutMessage
               /\ (C26_Has("quota") /\ ~C26_Has("timeout")) => C26_Left.text = QuotaMessage
               /\ ((C26_Has("invalid") \/ C26_Has("401") \/ C26_Has("403"))
                     /\ ~C26_Has("timeout") /\ ~C26_Has("quota"))
                    => C26_Left.text = InvalidKeyMessage

\* C26 amended: what leaves a failed run is an INVALID_DOCUMENT error unchanged
\* or a new error with one of the fixed messages; 'timeout' in the caught
\* message gives the timeout message, else 'quota' or '429' the quota message,
\* else 'invalid', '401' or '403' the invalid-key message, else '503', 'high
\* demand' or 'currently experiencing' the high-demand message, else 'all
\* models' the all-models message, else the default message with the caught
\* message after it.
C26_FirstMatchDecides ==
  (pc = "done" /\ outcome.st = "failed")
    => /\ C26_OneOfTheMessages
       /\ (C26_Caught # NoError /\ C26_Caught.code # "INVALID_DOCUMENT")
            => C26_Left.text =
                 (CASE C26_Has("timeout") -> TimeoutMessage
                    [] ~C26_Has("timeout") /\ (C26_Has("quota") \/ C26_Has("429")) -> QuotaMessage
                    [] ~C26_Has("timeout") /\ ~C26_Has("quota") /\ ~C26_Has("429")
                         /\ (C26_Has("invalid") \/ C26_Has("401") \/ C26_Has("403"))
                         -> InvalidKeyMessage
                    [] C26_Caught.markers \cap {"timeout", "quota", "429", "invalid", "401", "403"} = {}
                         /\ C26_Caught.markers \cap {"503", "high demand", "currently experiencing"} # {}
                         -> HighDemandMessage
                    [] C26_Caught.markers \cap {"timeout", "quota", "429", "invalid", "401", "403",
                                               "503", "high demand", "currently experiencing"} = {}
                         /\ C26_Has("all models")
                         -> AllModelsMessage
                    [] OTHER -> DefaultPrefix \o C26_Caught.text)

\* C26 witness: an error with '401' and '429' left the run as the quota message.
C26_Witness ==
  /\ pc = "done"
  /\ outcome.st = "failed"
  /\ lastError.markers = {"401", "429"}
  /\ outcome.result.error.text = QuotaMessage

\* C26 second witness: an error with no marker left with the default message.
C26_WitnessDefault ==
  /\ pc = "done"
  /\ outcome.st = "failed"
  /\ lastError # NoError
  /\ lastError.markers = {}
  /\ outcome.result.error.text = DefaultPrefix \o lastError.text

\* The topic headings of a markdown, in order.
C27_Headings(markdown) == SelectSeq(markdown, LAMBDA line : line.k = "h3")

\* The place of the topic of that name in the result, and its confidence.
C27_Place(name) ==
  CHOOSE i \in 1..Len(probe.analysis.topics) : probe.analysis.topics[i].name = name

C27_Confidence(name) == probe.analysis.topics[C27_Place(name)].confidence

\* The topics are listed by confidence descending, ties in their given order,
\* each topic once and numbered from 1.
C27_Listed(markdown) ==
  LET heads == C27_Headings(markdown)
  IN /\ Len(heads) = Len(probe.analysis.topics)
     /\ \A i \in 1..Len(heads) :
          /\ heads[i].n = i
          /\ \E j \in 1..Len(probe.analysis.topics) :
                probe.analysis.topics[j].name = heads[i].text
     /\ \A i, j \in 1..Len(heads) :
          i < j => \/ C27_Confidence(heads[i].text) > C27_Confidence(heads[j].text)
                   \/ /\ C27_Confidence(heads[i].text) = C27_Confidence(heads[j].text)
                      /\ C27_Place(heads[i].text) < C27_Place(heads[j].text)

C27_WitnessTwoDays ==
  /\ probe.st = "export"
  /\ Len(probe.exports) = 2
  /\ probe.exports[1].saved
  /\ probe.exports[1].on # probe.exports[2].on

\* The model calls of a trace, in order.
C28_Calls(tr) == EventsOf(tr, "call")

\* The calls go through the list in order from the first model, each model
\* gets at most 3 and the run at most 9, and a model is called only after
\* every model before it was reported unavailable.
C28_InOrder(tr) ==
  LET calls == C28_Calls(tr)
  IN /\ Len(calls) <= 9
     /\ \A i \in 1..Len(calls) :
          /\ calls[i].m \in 1..Len(modelsToTry)
          /\ i = 1 => calls[i].m = 1
          /\ i > 1 => calls[i].m \in {calls[i - 1].m, calls[i - 1].m + 1}
     /\ \A m \in 1..Len(modelsToTry) :
          Cardinality({i \in 1..Len(calls) : calls[i].m = m}) <= 3
     /\ \A i \in 1..Len(tr) :
          tr[i].e = "call"
            => \A m \in 1..(tr[i].m - 1) :
                 \E j \in 1..(i - 1) : tr[j] = Ev("report", "unavailable", m, 0)

\* C28 as claimed: in every run the models are called in the order of the
\* list, a model only after every earlier one was given up as unavailable,
\* each at most 3 times and 9 times in all; and when a call succeeds the run
\* ends with that step, so that no model is called after it.
C28_ModelsInOrder ==
  [][ /\ C28_InOrder(trace')
      /\ (pc = "calling" /\ inv' # inv /\ settled'.k = "resolved") => pc' = "done" ]_vars

\* Order and bounds alone.
C28_OrderAndBounds == C28_InOrder(trace)

\* Nine calls were made, three to each model.
C28_NineCalls ==
  /\ Len(C28_Calls(trace)) = 9
  /\ pc = "done"

\* The message has one of 'timeout', 'invalid', 'quota', '401', '403' and one
\* of '503', '500', '429', 'high demand'.
C29_FatalAndTransient(e) ==
  /\ e.markers \cap {"timeout", "invalid", "quota", "401", "403"} # {}
  /\ e.markers \cap {"503", "500", "429", "high demand"} # {}

\* C29: when the call of an attempt raises an error whose message has a fatal
\* marker and a transient marker together, generateContentWithRetry throws it
\* in that step whatever attempts are left: no retry is reported, nothing is
\* waited for and no further call is made.
C29_FatalBeforeTransient ==
  [][ ~LeftoverFires =>
      /\ (inv.st = "calling" /\ inv' # inv /\ settled'.k = "rejected"
            /\ C29_FatalAndTransient(settled'.error))
           => /\ inv'.st = "thrown"
              /\ inv'.error = settled'.error
              /\ inv'.attempt = inv.attempt
              /\ trace' = trace
      /\ (inv.st = "thrown" /\ C29_FatalAndTransient(inv.error))
           => (inv' = inv /\ trace' = trace) ]_vars

\* C29 witness: an error with 'quota' and '429' was thrown on the second
\* attempt with attempts left.
C29_Witness ==
  /\ inv.st = "thrown"
  /\ inv.attempt = 2
  /\ inv.attempt < inv.maxRetries
  /\ inv.error.markers = {"quota", "429"}
  /\ CallCount(trace) = 2

\* C29 second witness: 'invalid' with '503', on the first attempt.
C29_WitnessInvalid ==
  /\ inv.st = "thrown"
  /\ inv.attempt = 1
  /\ inv.maxRetries > 1
  /\ inv.error.markers = {"invalid", "503"}
  /\ Len(trace) = 1

\* ------------------------------------------------------------ a run that ends
\* Every extraction and every encoding settles, every race of a model call
\* with its 120000 ms timer settles, every sleep ends and every timer fires.
Fairness ==
  /\ WF_vars(\E slot \in Slots : ExtractSettles(slot))
  /\ WF_vars(\E slot \in Slots, ok \in BOOLEAN : EncodeSettles(slot, ok))
  /\ WF_vars(ModelSettles)
  /\ WF_vars(SleepDone)
  /\ WF_vars(LateTimer)

\* The application with a syllabus or a receipt in the first slot and a scanned
\* document in the second.
InitLive ==
  /\ Init
  /\ syllabusFile \in {Syllabus, Receipt}
  /\ pyqFile = Scanned

SpecLive == InitLive /\ [][Next]_vars /\ Fairness

\* C30: every run that has started ends, returned or failed; the application
\* is in the analyzing state exactly while a run is under way, and with the
\* run over the current step is cleared.
C30_RunEnds ==
  /\ [](isAnalyzing <=> pc \notin {"idle", "done"})
  /\ [](pc = "done" => (currentStep = NoStep /\ outcome.st \in {"returned", "failed"}))
  /\ (isAnalyzing ~> (pc = "done" /\ ~isAnalyzing))

\* C30 witness: a run has ended after nine calls, three to each model, and the
\* application has left the analyzing state.
C30_Witness ==
  /\ pc = "done"
  /\ outcome.st = "failed"
  /\ CallCount(trace) = 9
  /\ ~isAnalyzing
  /\ currentStep = NoStep

\* C30 second witness: a run has ended at the gate, before any encoding.
C30_WitnessGate ==
  /\ pc = "done"
  /\ outcome.st = "failed"
  /\ trace # <<>>
  /\ \A i \in 1..Len(trace) : trace[i].e \notin {"encode", "call"}
  /\ ~isAnalyzing

\* ------------------------------------------------- claims on the two slots
\* Both files of the run under way, or last ended, fail to give their text.
C31_BothFail == pc # "idle" /\ job[1].throws /\ job[2].throws

\* C31: in a run whose two extractions both fail each settled extraction gives
\* the empty text, the combined text is one newline with no word in it, the
\* density check does not pass, and the run makes no encoding and no model
\* call: it is still extracting, or it has failed with INVALID_DOCUMENT made at
\* the gate with no detectedType.
C31_NoTextNeverReachesModel ==
  C31_BothFail
    => /\ pc \in {"extracting", "done"}
       /\ \A slot \in Slots : extracted[slot].text = <<>>
       /\ encoded = [slot \in Slots |-> "idle"]
       /\ CallCount(trace) = 0
       /\ combinedText(<<>>, <<>>) = << Nl >>
       /\ WordCount(combinedText(extracted[1].text, extracted[2].text)) = 0
       /\ ~validateDocumentContent(combinedText(extracted[1].text, extracted[2].text)).passed
       /\ pc = "done"
            => /\ outcome.st = "failed"
               /\ outcome.result.error = GateError
               /\ outcome.result.error.code = "INVALID_DOCUMENT"
               /\ outcome.result.error.detectedType = <<>>

\* C31 witness: the run of two scanned files has ended at the gate, and the
\* App shows the invalid-document state under the generic label.
C31_Witness ==
  /\ C31_BothFail
  /\ pc = "done"
  /\ \A slot \in Slots : extracted[slot].st = "settled"
  /\ error = << "INVALID_DOCUMENT" >>
  /\ invalidDocumentType = GenericLabel
  /\ ~isAnalyzing

\* C31 second witness: one of the two failing extractions has settled.
C31_WitnessHalfway ==
  /\ C31_BothFail
  /\ pc = "extracting"
  /\ extracted[1].st = "pending"
  /\ extracted[2].st = "settled"

\* The check lets the file through: extraction throws or the quick check passes.
C32_Accepts(f) == f.throws \/ looksAcademic(f)

\* Both orders in which the two oldest checks in flight can complete: the
\* older first, and the newer first.
C32_OlderFirst(d) == checkSettled(checkSettled(d, 1), 1)
C32_NewerFirst(d) == checkSettled(checkSettled(d, 2), 1)

\* C32: a selection made while a check is in flight starts a second check
\* beside it; when both let their file through the one that completes last
\* gives the accepted file; and when the older file A fails the quick check
\* and the newer file B is let through, either order of completion leaves B
\* accepted with A pending under the warning, where cancel empties the slot
\* and confirm puts A in the place of B.
C32_ChecksNotSerialized ==
  /\ (gate.checks # <<>> /\ Len(gate.checks) < MaxChecks)
       => \A u \in Uploads :
            (u.type = "application/pdf" /\ EndsWithPdf(u.name))
              => handleDrop(TheDropzone, u).gate.checks = Append(gate.checks, u.file)
  /\ Len(gate.checks) >= 2
       => LET A == gate.checks[1]
              B == gate.checks[2]
          IN /\ (C32_Accepts(A) /\ C32_Accepts(B))
                  => /\ C32_OlderFirst(TheDropzone).file = B
                     /\ C32_NewerFirst(TheDropzone).file = A
             /\ (~C32_Accepts(A) /\ C32_Accepts(B))
                  => \A d \in {C32_OlderFirst(TheDropzone), C32_NewerFirst(TheDropzone)} :
                       /\ d.file = B
                       /\ d.gate.pendingFile = A
                       /\ WarningShown(d)
                       /\ handleCancelWarning(d).file = NoFile
                       /\ handleConfirmAnyway(d).file = A

\* C32 witness: the syllabus is the accepted file while the receipt is held
\* pending under the warning, with no check left in flight.
C32_Witness ==
  /\ syllabusFile = Syllabus
  /\ gate.pendingFile = Receipt
  /\ WarningShown(TheDropzone)
  /\ gate.checks = <<>>
  /\ ~gate.isChecking

\* C32 second witness: the receipt's check and, started after it, the
\* syllabus's check are in flight together.
C32_WitnessInFlight == gate.checks = << Receipt, Syllabus >>

\* C32 third witness: the newer check has completed first - the syllabus is
\* accepted and the spinner is off while the receipt's check is still in flight.
C32_WitnessNewerFirst ==
  /\ syllabusFile = Syllabus
  /\ gate.checks = << Receipt >>
  /\ ~gate.isChecking
  /\ gate.pendingFile = NoFile

\* The selections that pass the MIME test of handleDrop under a name that does
\* not end in '.pdf'.
C33_IllNamed == {u \in Uploads : u.type = "application/pdf" /\ ~EndsWithPdf(u.name)}

\* C33: in every reachable state, a selection rejected for its name leaves the
\* slot with no accepted file, whatever it held, and leaves the pending file,
\* the warning, the checking indicator and the checks in flight exactly as
\* they were; so on a slot that holds an accepted file it is no no-op.
C33_RejectionEmptiesSlot ==
  \A u \in C33_IllNamed :
    LET after == validateAndSetFile(TheDropzone, u)
    IN /\ after = handleDrop(TheDropzone, u)
       /\ after.file = NoFile
       /\ after.gate.pendingFile = gate.pendingFile
       /\ after.gate.showAcademicWarning = gate.showAcademicWarning
       /\ after.gate.isChecking = gate.isChecking
       /\ after.gate.checks = gate.checks
       /\ syllabusFile # NoFile => after # TheDropzone

\* C33 witness: the scanned file is the accepted one, the receipt is pending
\* under the warning and a check is in flight; the rejection of the nameless
\* selection empties the slot and keeps the rest.
C33_Witness ==
  /\ syllabusFile = Scanned
  /\ WarningShown(TheDropzone)
  /\ gate.pendingFile = Receipt
  /\ gate.checks = << Syllabus >>
  /\ validateAndSetFile(TheDropzone, Upload(<<>>, "application/pdf", Nameless))
       = Dropzone(NoFile, gate)
  /\ Dropzone(NoFile, gate) # TheDropzone

\* C33 second witness: the spinner is on over an accepted file, and the
\* rejection leaves it on.
C33_WitnessChecking ==
  /\ syllabusFile = Syllabus
  /\ gate.isChecking
  /\ \A u \in C33_IllNamed :
       handleDrop(TheDropzone, u) = Dropzone(NoFile, gate) /\ handleDrop(TheDropzone, u).gate.isChecking

\* ------------------------------------------------- claims on one run at a time
\* A run starts in this step.
C34_Starts == pc # "extracting" /\ pc' = "extracting"

\* C34: a run is under way exactly while isAnalyzing holds, and a result and
\* an error message are never both on screen; a run starts only with the
\* Analyze button enabled (not analyzing, both files present) and no run under
\* way, on the two files of the slots, and its start clears result and error;
\* the analyzing state is left only by the step in which the run returns or
\* fails; and the step that sets a result sets it with no error, as a reset
\* clears both.
C34_OneRunAtATime ==
  /\ [](isAnalyzing <=> pc \in {"extracting", "encoding", "calling", "backoff", "fallback"})
  /\ [](~(analysis.set /\ error # <<>>))
  /\ [][ /\ C34_Starts
              => /\ canAnalyze
                 /\ pc \in {"idle", "done"}
                 /\ isAnalyzing'
                 /\ job' = << syllabusFile, pyqFile >>
                 /\ analysis' = NoAnalysis /\ error' = <<>>
         /\ (isAnalyzing /\ ~isAnalyzing')
              => /\ pc' = "done"
                 /\ outcome.st = "none"
                 /\ outcome'.st \in {"returned", "failed"}
         /\ (analysis.set /\ ~analysis'.set)
              => /\ ~isAnalyzing /\ ~isAnalyzing'
                 /\ error' = <<>>
                 /\ syllabusFile' = NoFile /\ pyqFile' = NoFile ]_vars

\* C34 witness: a run has returned - the result is on screen with no error,
\* and the application has left the analyzing state.
C34_Witness ==
  /\ pc = "done"
  /\ outcome.st = "returned"
  /\ analysis.set
  /\ error = <<>>
  /\ ~isAnalyzing

\* C34 second witness: a run is calling its second model, with neither a
\* result nor an error on screen and the Analyze button disabled.
C34_WitnessUnderWay ==
  /\ pc = "calling"
  /\ modelIdx = 2
  /\ isAnalyzing
  /\ ~canAnalyze
  /\ ~analysis.set
  /\ error = <<>>

\* C34 third witness: a failed run has left its message, with no result.
C34_WitnessFailed ==
  /\ pc = "done"
  /\ outcome.st = "failed"
  /\ error # <<>>
  /\ ~analysis.set
  /\ ~isAnalyzing

\* ------------------------------------------- claims on the pending file
\* C35: in every reachable state of the dropzone a pending file is held
\* exactly when the warning flag is set, and no check is shown in progress
\* over a pending file; every step changes the two together; and a step that
\* starts a check leaves no pending file and no warning, with the checking
\* indicator on.
C35_PendingIffWarning ==
  /\ []((gate.pendingFile # NoFile) <=> gate.showAcademicWarning)
  /\ [](gate.pendingFile # NoFile => ~gate.isChecking)
  /\ [][ /\ (gate'.pendingFile # gate.pendingFile)
              => (gate'.showAcademicWarning <=> gate'.pendingFile # NoFile)
         /\ (gate'.showAcademicWarning # gate.showAcademicWarning)
              => ((gate'.pendingFile = NoFile) # (gate.pendingFile = NoFile))
         /\ Len(gate'.checks) > Len(gate.checks)
              => /\ gate'.pendingFile = NoFile
                 /\ ~gate'.showAcademicWarning
                 /\ gate'.isChecking ]_vars

\* C35 witness: the receipt is pending under the warning with nothing else in
\* the slot, and any well-named selection made now starts a check that clears
\* both.
C35_Witness ==
  /\ gate.pendingFile = Receipt
  /\ gate.showAcademicWarning
  /\ syllabusFile = NoFile
  /\ gate.checks = <<>>
  /\ \A u \in Uploads :
       (u.type = "application/pdf" /\ EndsWithPdf(u.name))
         => /\ handleDrop(TheDropzone, u).gate.pendingFile = NoFile
            /\ ~handleDrop(TheDropzone, u).gate.showAcademicWarning
            /\ handleDrop(TheDropzone, u).gate.checks = << u.file >>

\* C35 second witness: with the receipt's check still in flight a newer check
\* is running and neither a pending file nor the warning is left.
C35_WitnessCleared ==
  /\ gate.checks = << Receipt, Receipt >>
  /\ gate.isChecking
  /\ gate.pendingFile = NoFile
  /\ ~gate.showAcademicWarning

====
